---- MODULE Spec2Model ----
(***************************************************************************)
(* Model of the MACH mission-admission pipeline:                           *)
(*   - MachTracer.traceIntent            (src/src/mach/services/tracer.ts) *)
(*   - VectorService.ingestGitHubRepo    (services/vector.ts)              *)
(*   - processMission and its triggers   (worker.ts, routes/*.ts)          *)
(*   - calculateEntropy and its scorers  (worker.ts)                       *)
(*   - chunkText                         (services/vector.ts)              *)
(* Each component has its own specification over a shared variable set;    *)
(* a specification leaves the variables of the other components untouched. *)
(***************************************************************************)
EXTENDS Integers, Sequences, FiniteSets, TLC

VARIABLES
    \* ---- MachTracer.traceIntent ----
    t_pc,         \* position inside traceIntent
    t_objective,  \* the objective argument (sequence of words)
    t_entities,   \* local `entities`
    t_extract,    \* what the entity-extraction oracle call came back with
    t_llmCalls,   \* number of this.llm.invoke calls made by the current call
    t_searches,   \* number of vectorService.search calls, per filter
    t_threw,      \* which collaborator calls threw during the current call
    t_probe,      \* what the probe search of the guard came back with
    t_chunks,     \* number of chunks handed to the adjudication oracle
    t_reply,      \* text of the adjudication reply that was parsed
    t_result,     \* the TraceResult the promise resolved with
    \* ---- VectorService.ingestGitHubRepo ----
    v_rows,       \* mach_vectors: number of stored chunks per repo prefix
    v_calls,      \* ingestGitHubRepo invocations: caller -> frame
    v_started,    \* number of ingestGitHubRepo calls made so far
    v_stores,     \* number of embedAndStore calls per repo prefix
    v_inserted,   \* number of times a chunk set was inserted, per repo prefix
    v_lateFetch,  \* repos for which a call that began after a store fetched
    v_overlap,    \* repos for which two calls have been in flight together
    v_dedupErr,   \* repos for which a dedup query has failed
    \* ---- processMission and its triggers ----
    m_db,         \* missions table: id -> row
    m_runs,       \* processMission invocations: slot -> frame
    m_webhooks,   \* missions whose INSERT webhook is not yet delivered
    \* ---- calculateEntropy ----
    g_vectors,    \* the four vector values of the last composite computed
    g_result,     \* the MEAResult built from g_vectors
    e_text,       \* the text argument of the last calculateEntropy call
    e_result,     \* what that call returned
    e_seen,       \* every (text, result) pair returned so far
    \* ---- chunkText ----
    c_text,       \* the text argument of the last chunkText call
    c_budget,     \* its maxChars argument
    c_chunks      \* the chunks it returned

traceVars   == <<t_pc, t_objective, t_entities, t_extract, t_llmCalls, t_searches,
                 t_threw, t_probe, t_chunks, t_reply, t_result>>
vectorVars  == <<v_rows, v_calls, v_started, v_stores, v_inserted, v_lateFetch,
                 v_overlap, v_dedupErr>>
missionVars == <<m_db, m_runs, m_webhooks>>
meaVars     == <<g_vectors, g_result, e_text, e_result, e_seen>>
chunkVars   == <<c_text, c_budget, c_chunks>>
libVars     == <<meaVars, chunkVars>>
vars        == <<traceVars, vectorVars, missionVars, libVars>>

Max(a, b) == IF a >= b THEN a ELSE b
Min(a, b) == IF a <= b THEN a ELSE b

(***************************************************************************)
(* Text of oracle replies.  A reply is a sequence of tokens: prose, the    *)
(* four bracket characters, JSON members (key, string value) and JSON      *)
(* array items.                                                            *)
(***************************************************************************)
Tok(k, v) == [k |-> k, v |-> v]
PROSE == Tok("prose", "")
LBRACE == Tok("{", "")
RBRACE == Tok("}", "")
LBRACK == Tok("[", "")
RBRACK == Tok("]", "")
UNDEF == "<undefined>"
MemberKeys == {"status", "source", "snippet", "reason"}

Truthy(v) == v \notin {"", UNDEF}

Positions(text, k) == {i \in 1..Len(text) : text[i].k = k}
SetMin(S) == CHOOSE x \in S : \A y \in S : x <= y
SetMax(S) == CHOOSE x \in S : \A y \in S : x >= y

\* text.match(/\{[\s\S]*\}/): greedy, from the first "{" to the last "}".
GreedyMatch(text, open, close) ==
    LET os == Positions(text, open)
        cs == Positions(text, close)
    IN  IF os = {} \/ cs = {} \/ SetMax(cs) < SetMin(os)
        THEN [found |-> FALSE, sub |-> <<>>]
        ELSE [found |-> TRUE, sub |-> SubSeq(text, SetMin(os), SetMax(cs))]

\* JSON.parse of a matched "{ ... }": the interior must consist of members.
JsonObjectOk(sub) ==
    /\ Len(sub) >= 2
    /\ \A i \in 2..(Len(sub) - 1) : sub[i].k \in MemberKeys

\* parsed.<key>: the last member with that key wins; absent is undefined.
Member(sub, key) ==
    LET ps == Positions(sub, key)
    IN  IF ps = {} THEN UNDEF ELSE sub[SetMax(ps)].v

NoCtx == [source |-> UNDEF, snippet |-> UNDEF, reason |-> UNDEF]
CLEAN == [status |-> "CLEAN", ctx |-> NoCtx]
NoResult == [status |-> "NONE", ctx |-> NoCtx]
Collision(src, snip, why) ==
    [status |-> "COLLISION", ctx |-> [source |-> src, snippet |-> snip, reason |-> why]]


(***************************************************************************)
(* MachTracer (tracer.ts)                                                  *)
(***************************************************************************)
TopK == 3
ProbeK == 1
MaxEntities == 10
MinEntityLen == 3
AuditorPromptIsPlaceholder == FALSE

Objectives ==
    { <<"fix", "it">>,
      <<"add", "redis", "cache", "layer">>,
      <<"move", "auth", "guard", "into", "edge", "with", "rate", "limits",
        "plus", "audit", "logs", "soon">> }

\* vectorStore.similaritySearch(query, k, filter): throws, returns 0..k
\* documents, or returns a value that is no list of documents.
NoList == [threw |-> FALSE, n |-> -1]
SearchOutcomes(k) ==
    {[threw |-> TRUE, n |-> 0], NoList} \cup {[threw |-> FALSE, n |-> i] : i \in 0..k}

\* this.llm.invoke(...): throws, returns a reply text, or returns a content
\* that is neither a string nor a list of parts.
Threw == [threw |-> TRUE, text |-> <<>>]
Reply(text) == [threw |-> FALSE, text |-> text]
NoText == [threw |-> FALSE, text |-> <<Tok("object", "")>>]
NoCall == [threw |-> FALSE, text |-> <<Tok("none", "")>>]

Item(v) == Tok("item", v)
EntityReplies ==
    { <<PROSE>>,
      <<LBRACK, RBRACK>>,
      <<LBRACK, Item("auth"), RBRACK>>,
      <<PROSE, LBRACK, Item("auth"), Item("session"), RBRACK, PROSE>>,
      <<LBRACK, PROSE, RBRACK>>,
      <<RBRACK, Item("auth"), LBRACK>>,
      <<LBRACK, Item("auth"), RBRACK, PROSE, RBRACK>> }
EntityOutcomes == {Threw, NoText} \cup {Reply(t) : t \in EntityReplies}

Opt(key, values) == {<<>>} \cup {<<Tok(key, v)>> : v \in values}
AuditBodies ==
    {<<>>} \cup
    { <<LBRACE>> \o st \o so \o sn \o re \o <<RBRACE>> :
        st \in Opt("status", {"CLEAN", "COLLISION"}),
        so \in Opt("source", {"", "src/auth.ts"}),
        sn \in Opt("snippet", {"", "useContext(Auth)"}),
        re \in Opt("reason", {"", "redundant payload"}) }
AuditAffixes ==
    { <<<<>>, <<>>>>,
      <<<<PROSE>>, <<PROSE>>>>,
      <<<<PROSE, LBRACE>>, <<>>>>,
      <<<<>>, <<PROSE, RBRACE>>>>,
      <<<<RBRACE>>, <<LBRACE>>>>,
      <<<<LBRACE, RBRACE>>, <<>>>> }
AuditReplies == {a[1] \o b \o a[2] : a \in AuditAffixes, b \in AuditBodies}
AuditOutcomes == {Threw, NoText} \cup {Reply(t) : t \in AuditReplies}

\* checkVectorStoreHasData without its try/catch: the probe's exception escapes.
checkVectorStoreHasData_nocatch(out) ==
    [threw |-> out.threw \/ out = NoList, value |-> out.n > 0]

\* checkVectorStoreHasData testing the call's success instead of the length.
checkVectorStoreHasData_nolength(out) ==
    [threw |-> FALSE, value |-> ~out.threw /\ out # NoList]

\* tracer.ts 194-201: results.length of a value that is no list throws too.
checkVectorStoreHasData(out) ==
    [threw |-> FALSE, value |-> (~out.threw) /\ out # NoList /\ out.n > 0]

\* objective.split(/\s+/).filter((w) => w.length > 3).slice(0, 10)
NaiveEntities(objective) ==
    LET long == SelectSeq(objective, LAMBDA w : Len(w) > MinEntityLen)
    IN  SubSeq(long, 1, Min(MaxEntities, Len(long)))

JsonArrayOk(sub) ==
    /\ Len(sub) >= 2
    /\ \A i \in 2..(Len(sub) - 1) : sub[i].k = "item"

\* tracer.ts 130-152
extractEntities(objective, out) ==
    IF out.threw \/ out = NoText THEN NaiveEntities(objective)
    ELSE LET m == GreedyMatch(out.text, "[", "]")
         IN  IF ~m.found THEN <<>>
             ELSE IF ~JsonArrayOk(m.sub) THEN NaiveEntities(objective)
             ELSE [i \in 1..(Len(m.sub) - 2) |-> m.sub[i + 1].v]

\* JSON.parse(jsonMatch[0]) throws inside parseAuditorResponse
AuditParseThrows(text) ==
    LET m == GreedyMatch(text, "{", "}")
    IN  m.found /\ ~JsonObjectOk(m.sub)

\* parseAuditorResponse trusting the status alone, without the field check.
parseAuditorResponse_statusonly(text) ==
    LET m == GreedyMatch(text, "{", "}")
    IN  IF ~m.found \/ ~JsonObjectOk(m.sub) THEN CLEAN
        ELSE IF Member(m.sub, "status") = "COLLISION"
             THEN Collision(Member(m.sub, "source"), Member(m.sub, "snippet"),
                            Member(m.sub, "reason"))
             ELSE CLEAN

\* tracer.ts 157-189
parseAuditorResponse(text) ==
    LET m == GreedyMatch(text, "{", "}")
    IN  IF ~m.found THEN CLEAN
        ELSE IF ~JsonObjectOk(m.sub) THEN CLEAN
        ELSE IF /\ Member(m.sub, "status") = "COLLISION"
                /\ Truthy(Member(m.sub, "source"))
                /\ Truthy(Member(m.sub, "snippet"))
                /\ Truthy(Member(m.sub, "reason"))
             THEN Collision(Member(m.sub, "source"), Member(m.sub, "snippet"),
                            Member(m.sub, "reason"))
             ELSE CLEAN

\* The try block of traceIntent without its catch: the exception escapes.
traceIntentCatch_rethrow(threw, res) ==
    [rejected |-> threw, result |-> IF threw THEN NoResult ELSE res]

\* tracer.ts 81, 120-123: try { ... } catch { return CLEAN }
traceIntentCatch(threw, res) ==
    [rejected |-> FALSE, result |-> IF threw THEN CLEAN ELSE res]

NoSearches == [f \in {"probe", "code", "doc"} |-> 0]

TraceInit ==
    /\ t_pc = "idle"
    /\ t_objective = <<>>
    /\ t_entities = <<>>
    /\ t_extract = NoCall
    /\ t_llmCalls = 0
    /\ t_searches = NoSearches
    /\ t_threw = {}
    /\ t_probe = "none"
    /\ t_chunks = 0
    /\ t_reply = <<>>
    /\ t_result = NoResult

\* traceIntent(objective) is called.
TraceCall ==
    /\ t_pc = "idle"
    /\ \E obj \in Objectives : t_objective' = obj
    /\ t_pc' = "guard"
    /\ t_entities' = <<>>
    /\ t_extract' = NoCall
    /\ t_llmCalls' = 0
    /\ t_searches' = NoSearches
    /\ t_threw' = {}
    /\ t_probe' = "none"
    /\ t_chunks' = 0
    /\ t_reply' = <<>>
    /\ t_result' = NoResult
    /\ UNCHANGED <<vectorVars, missionVars, libVars>>

TraceFinish(res) ==
    /\ t_pc' = "done"
    /\ t_result' = res
    /\ t_entities' = <<>>

TraceSettle(o) ==
    IF o.rejected
    THEN /\ t_pc' = "rejected"
         /\ t_entities' = <<>>
         /\ UNCHANGED t_result
    ELSE TraceFinish(o.result)

\* tracer.ts 69-79: the pass-through guard.
TraceGuard ==
    /\ t_pc = "guard"
    /\ \E out \in SearchOutcomes(ProbeK) :
        LET has == checkVectorStoreHasData(out)
        IN  /\ t_searches' = [t_searches EXCEPT !["probe"] = @ + 1]
            /\ t_threw' = IF out.threw THEN t_threw \cup {"probe"} ELSE t_threw
            /\ t_probe' = IF out.threw THEN "threw"
                          ELSE IF out = NoList THEN "nolist"
                          ELSE IF out.n = 0 THEN "empty" ELSE "data"
            /\ IF has.threw
               THEN TraceSettle([rejected |-> TRUE, result |-> NoResult])
               ELSE IF ~has.value \/ AuditorPromptIsPlaceholder
               THEN TraceFinish(CLEAN)
               ELSE /\ t_pc' = "extract"
                    /\ UNCHANGED <<t_entities, t_result>>
    /\ UNCHANGED <<t_objective, t_extract, t_llmCalls, t_chunks, t_reply>>
    /\ UNCHANGED <<vectorVars, missionVars, libVars>>

\* tracer.ts 83: entity extraction (one oracle call, never throws).
TraceExtract ==
    /\ t_pc = "extract"
    /\ \E out \in EntityOutcomes :
        /\ t_entities' = extractEntities(t_objective, out)
        /\ t_extract' = out
        /\ t_threw' = IF out.threw THEN t_threw \cup {"extract"} ELSE t_threw
    /\ t_llmCalls' = t_llmCalls + 1
    /\ t_pc' = "retrieve"
    /\ UNCHANGED <<t_objective, t_searches, t_probe, t_chunks, t_reply, t_result>>
    /\ UNCHANGED <<vectorVars, missionVars, libVars>>

\* the empty-context guard never taken
contextIsEmpty_never(codeN, docN) == FALSE

\* tracer.ts 93-98: !retrievedContext.trim(); every retrieved chunk adds its
\* "[CODE]" or "[DOC]" heading, so the context is empty only without chunks
contextIsEmpty(codeN, docN) == codeN + docN = 0

\* tracer.ts 87-101: the two parallel searches and the empty-context guard.
TraceRetrieve ==
    /\ t_pc = "retrieve"
    /\ \E c \in SearchOutcomes(TopK), d \in SearchOutcomes(TopK) :
        /\ t_searches' = [t_searches EXCEPT !["code"] = @ + 1, !["doc"] = @ + 1]
        /\ t_threw' = t_threw \cup (IF c.threw THEN {"code"} ELSE {})
                              \cup (IF d.threw THEN {"doc"} ELSE {})
        /\ IF c.threw \/ d.threw \/ NoList \in {c, d}
           THEN /\ TraceSettle(traceIntentCatch(TRUE, NoResult))
                /\ UNCHANGED t_chunks
           ELSE IF contextIsEmpty(c.n, d.n)
           THEN /\ TraceSettle(traceIntentCatch(FALSE, CLEAN))
                /\ UNCHANGED t_chunks
           ELSE /\ t_pc' = "audit"
                /\ t_chunks' = c.n + d.n
                /\ UNCHANGED <<t_entities, t_result>>
    /\ UNCHANGED <<t_objective, t_extract, t_llmCalls, t_probe, t_reply>>
    /\ UNCHANGED <<vectorVars, missionVars, libVars>>

\* tracer.ts 106-119: adjudication and response parsing.
TraceAudit ==
    /\ t_pc = "audit"
    /\ \E out \in AuditOutcomes :
        /\ t_reply' = IF out = NoText THEN <<>> ELSE out.text
        /\ t_threw' = t_threw \cup (IF out.threw THEN {"audit"} ELSE {})
                              \cup (IF ~out.threw /\ out # NoText /\ AuditParseThrows(out.text)
                                    THEN {"parse"} ELSE {})
        /\ TraceSettle(traceIntentCatch(out.threw \/ out = NoText,
                           IF out.threw \/ out = NoText THEN NoResult
                           ELSE parseAuditorResponse(out.text)))
    /\ t_llmCalls' = t_llmCalls + 1
    /\ UNCHANGED <<t_objective, t_extract, t_searches, t_probe, t_chunks>>
    /\ UNCHANGED <<vectorVars, missionVars, libVars>>

\* The caller takes the result; the tracer is ready for the next mission.
TraceReturn ==
    /\ t_pc = "done"
    /\ t_pc' = "idle"
    /\ UNCHANGED <<t_objective, t_entities, t_extract, t_llmCalls, t_searches,
                   t_threw, t_probe, t_chunks, t_reply, t_result>>
    /\ UNCHANGED <<vectorVars, missionVars, libVars>>


(***************************************************************************)
(* VectorService (services/vector.ts)                                      *)
(***************************************************************************)
MaxCalls == 3
MaxTreeFiles == 6
MaxFetchFiles == 50
BatchSize == 5

Callers == {1, 2}
NoPrefix == <<>>

\* Repository URLs handed to ingestGitHubRepo.
RepoUrls ==
    { [host |-> "github.com", owner |-> "acme", repo |-> "app", dotGit |-> FALSE],
      [host |-> "github.com", owner |-> "acme", repo |-> "app", dotGit |-> TRUE],
      [host |-> "github.com", owner |-> "acme", repo |-> "lib", dotGit |-> FALSE],
      [host |-> "gitlab.com", owner |-> "acme", repo |-> "app", dotGit |-> FALSE] }

\* vector.ts 83-91: /github\.com\/([^/]+)\/([^/\s#?]+)/ and the ".git" strip.
repoPrefixOf(url) ==
    IF url.host # "github.com" THEN NoPrefix ELSE <<url.owner, url.repo>>

RepoPrefixes == {repoPrefixOf(u) : u \in RepoUrls} \ {NoPrefix}

\* vector.ts 64-76: a failed query counts as "not ingested".
isRepoIngested(err, rows) ==
    IF err THEN FALSE ELSE rows > 0

\* vector.ts 37-47: no-op on empty input, otherwise one addDocuments call.
embedAndStore(rows, n, ok) ==
    IF n = 0 THEN rows ELSE IF ok THEN rows + n ELSE rows

\* The frame of a call: files still to fetch, fetches in flight, fetches
\* started, files that yielded chunks, the kinds of fetch failure met, whether a
\* batch began before the one before had settled, and the embedAndStore calls
\* made (and whether one threw).  A settled call keeps its frame until the
\* caller calls again.
CallFrame(pc, prefix, late) ==
    [pc |-> pc, prefix |-> prefix, files |-> 0, nchunks |-> 0,
     late |-> late, outcome |-> "none", inflight |-> 0, fetched |-> 0,
     failures |-> {}, early |-> FALSE, storeCalls |-> 0, storeThrew |-> FALSE]

IdleFrame(outcome) == [CallFrame("idle", NoPrefix, FALSE) EXCEPT !.outcome = outcome]

VectorInit ==
    /\ v_rows = [p \in RepoPrefixes |-> 0]
    /\ v_calls = [c \in Callers |-> IdleFrame("none")]
    /\ v_started = 0
    /\ v_stores = [p \in RepoPrefixes |-> 0]
    /\ v_inserted = [p \in RepoPrefixes |-> 0]
    /\ v_lateFetch = {}
    /\ v_overlap = {}
    /\ v_dedupErr = {}

IngestSettle(c, outcome) ==
    v_calls' = [v_calls EXCEPT ![c].pc = "idle", ![c].outcome = outcome]

InFlight(c, p) == v_calls[c].pc # "idle" /\ v_calls[c].prefix = p

\* A fetch issued by a call that began when the repo already had chunks.
NoteFetch(c) ==
    v_lateFetch' = IF v_calls[c].late
                   THEN v_lateFetch \cup {v_calls[c].prefix}
                   ELSE v_lateFetch

\* vector.ts 82-91: ingestGitHubRepo(repoUrl) is called.
IngestCall(c) ==
    /\ v_calls[c].pc = "idle"
    /\ v_started < MaxCalls
    /\ v_started' = v_started + 1
    /\ \E url \in RepoUrls :
        LET p == repoPrefixOf(url)
        IN  IF p = NoPrefix
            THEN /\ v_calls' = [v_calls EXCEPT ![c] = IdleFrame("resolved")]
                 /\ UNCHANGED v_overlap
            ELSE /\ v_calls' = [v_calls EXCEPT ![c] =
                        CallFrame("dedup", p, v_rows[p] > 0)]
                 /\ v_overlap' = IF \E d \in Callers \ {c} : InFlight(d, p)
                                 THEN v_overlap \cup {p} ELSE v_overlap
    /\ UNCHANGED <<v_rows, v_stores, v_inserted, v_lateFetch, v_dedupErr>>
    /\ UNCHANGED <<traceVars, missionVars, libVars>>

\* vector.ts 93-97: the dedup check.
IngestDedup(c) ==
    /\ v_calls[c].pc = "dedup"
    /\ \E err \in BOOLEAN :
        /\ v_dedupErr' = IF err THEN v_dedupErr \cup {v_calls[c].prefix} ELSE v_dedupErr
        /\ IF isRepoIngested(err, v_rows[v_calls[c].prefix])
           THEN IngestSettle(c, "resolved")
           ELSE v_calls' = [v_calls EXCEPT ![c].pc = "tree"]
    /\ UNCHANGED <<v_rows, v_started, v_stores, v_inserted, v_lateFetch, v_overlap>>
    /\ UNCHANGED <<traceVars, missionVars, libVars>>

\* vector.ts 109-140: the tree fetch, the filter and the slice(0, 50), for
\* a tree with one of the given numbers of relevant files.
TreeFetch(c, sizes) ==
    /\ v_calls[c].pc = "tree"
    /\ NoteFetch(c)
    /\ \/ IngestSettle(c, "rejected")                     \* fetch throws
       \/ IngestSettle(c, "resolved")                     \* !treeRes.ok
       \/ \E n \in sizes :                                \* n relevant blobs
            LET priority == Min(n, MaxFetchFiles)
            IN  v_calls' = [v_calls EXCEPT
                    ![c].files = priority,
                    ![c].pc = IF priority > 0 THEN "batch" ELSE "readme"]
    /\ UNCHANGED <<v_rows, v_started, v_stores, v_inserted, v_overlap, v_dedupErr>>
    /\ UNCHANGED <<traceVars, missionVars, libVars>>

IngestTree(c) == TreeFetch(c, {0, 1, MaxTreeFiles})

\* vector.ts 143-176: one batch of at most 5 fetches, settled as a whole.
IngestBatch(c) ==
    /\ v_calls[c].pc = "batch"
    /\ v_calls[c].files > 0
    /\ v_calls[c].inflight = 0
    /\ NoteFetch(c)
    /\ LET size == Min(BatchSize, v_calls[c].files)
       IN  \E ok \in {0, 1, size} :                       \* files that yielded content
            v_calls' = [v_calls EXCEPT
                ![c].nchunks = @ + ok,
                ![c].files = @ - size,
                ![c].fetched = @ + size,
                ![c].pc = IF v_calls[c].files - size > 0 THEN "batch" ELSE "readme"]
    /\ UNCHANGED <<v_rows, v_started, v_stores, v_inserted, v_overlap, v_dedupErr>>
    /\ UNCHANGED <<traceVars, missionVars, libVars>>

\* a tree of two batches and a tree of more files than are fetched
IngestLargeTree(c) == TreeFetch(c, {0, BatchSize + 1, MaxFetchFiles + 2})

\* the wait for the batch taken as over once one of its fetches has settled
batchSettled_any(inflight) == inflight < BatchSize

\* vector.ts 145: await Promise.allSettled(...) returns when no fetch of the
\* batch is in flight any more
batchSettled(inflight) == inflight = 0

\* vector.ts 143-149: the loop takes the next slice and batch.map starts one
\* fetch for each of its files.
IngestBatchStart(c) ==
    /\ v_calls[c].pc = "batch"
    /\ v_calls[c].files > 0
    /\ batchSettled(v_calls[c].inflight)
    /\ NoteFetch(c)
    /\ LET size == Min(BatchSize, v_calls[c].files)
       IN  v_calls' = [v_calls EXCEPT
               ![c].files = @ - size,
               ![c].fetched = @ + size,
               ![c].inflight = @ + size,
               ![c].early = @ \/ v_calls[c].inflight > 0]
    /\ UNCHANGED <<v_rows, v_started, v_stores, v_inserted, v_overlap, v_dedupErr>>
    /\ UNCHANGED <<traceVars, missionVars, libVars>>

\* vector.ts 146-155, 158-159: one fetch of the batch settles: with content,
\* with null (an error status or no content), or rejected.
FetchOutcomes == {"content", "status", "throw"}
IngestFetchSettle(c) ==
    /\ v_calls[c].pc = "batch"
    /\ v_calls[c].inflight > 0
    /\ \E out \in FetchOutcomes :
        v_calls' = [v_calls EXCEPT
            ![c].inflight = @ - 1,
            ![c].nchunks = IF out = "content" THEN @ + 1 ELSE @,
            ![c].failures = IF out = "status" THEN @ \cup {"file status"}
                            ELSE IF out = "throw" THEN @ \cup {"file throw"}
                            ELSE @,
            ![c].pc = IF v_calls[c].files = 0 /\ v_calls[c].inflight = 1
                      THEN "readme" ELSE "batch"]
    /\ UNCHANGED <<v_rows, v_started, v_stores, v_inserted, v_lateFetch, v_overlap,
                   v_dedupErr>>
    /\ UNCHANGED <<traceVars, missionVars, libVars>>
    /\ UNCHANGED <<v_rows, v_started, v_stores, v_inserted, v_overlap, v_dedupErr>>
    /\ UNCHANGED <<traceVars, missionVars, libVars>>

\* vector.ts 178-200: the README fetch and the empty-result return.
IngestReadme(c) ==
    /\ v_calls[c].pc = "readme"
    /\ NoteFetch(c)
    /\ \/ v_calls' = [v_calls EXCEPT                      \* fetch throws
                ![c].pc = "idle", ![c].outcome = "rejected",
                ![c].failures = @ \cup {"readme throw"}]
       \/ v_calls' = [v_calls EXCEPT                      \* !readmeRes.ok
                ![c].failures = @ \cup {"readme status"},
                ![c].pc = IF v_calls[c].nchunks = 0 THEN "idle" ELSE "store",
                ![c].outcome = IF v_calls[c].nchunks = 0 THEN "resolved" ELSE @]
       \/ \E got \in {0, 1} :                             \* no content: 0
            IF v_calls[c].nchunks + got = 0
            THEN IngestSettle(c, "resolved")
            ELSE v_calls' = [v_calls EXCEPT ![c].nchunks = @ + got, ![c].pc = "store"]
    /\ UNCHANGED <<v_rows, v_started, v_stores, v_inserted, v_overlap, v_dedupErr>>
    /\ UNCHANGED <<traceVars, missionVars, libVars>>

\* vector.ts 202-204: embedAndStore(chunks).
IngestStore(c) ==
    /\ v_calls[c].pc = "store"
    /\ LET p == v_calls[c].prefix
       IN  /\ v_stores' = [v_stores EXCEPT ![p] = @ + 1]
           /\ \E ok \in BOOLEAN :
                /\ v_rows' = [v_rows EXCEPT ![p] = embedAndStore(@, v_calls[c].nchunks, ok)]
                /\ v_inserted' = [v_inserted EXCEPT ![p] = IF ok THEN @ + 1 ELSE @]
                /\ v_calls' = [v_calls EXCEPT
                       ![c].pc = "idle",
                       ![c].outcome = IF ok THEN "resolved" ELSE "rejected",
                       ![c].storeCalls = @ + 1,
                       ![c].storeThrew = ~ok]
    /\ UNCHANGED <<v_started, v_lateFetch, v_overlap, v_dedupErr>>
    /\ UNCHANGED <<traceVars, missionVars, libVars>>


(***************************************************************************)
(* MEA composite and the vague-response check (worker.ts)                  *)
(* An objective is represented by the values the four lexical scorers      *)
(* give it; a generated plan is a sequence of words.                       *)
(***************************************************************************)
W1 == 30
W2 == 15
W3 == 40
W4 == 15
Mach1Max == 15
LaminarMax == 45
TurbulentMax == 75

Vectors(rho, sigma, mu, pi) ==
    [compressionRatio |-> rho, ambiguityDensity |-> sigma,
     specificityMass |-> mu, structuralIntegrity |-> pi]

\* x / 100 cut off instead of rounded
RoundDiv100_floor(x) == x \div 100

\* Math.round(x / 100) for a non-negative integer x
RoundDiv100(x) == (x + 50) \div 100

\* the tier chain with strict comparisons
flightTier_strict(score) ==
    IF score < Mach1Max THEN [flightStatus |-> "approved", flightLabel |-> "MACH-1"]
    ELSE IF score < LaminarMax THEN [flightStatus |-> "approved", flightLabel |-> "LAMINAR"]
    ELSE IF score < TurbulentMax THEN [flightStatus |-> "turbulent", flightLabel |-> "TURBULENT"]
    ELSE [flightStatus |-> "rejected", flightLabel |-> "PURE CHAOS"]

\* worker.ts 540-555
flightTier(score) ==
    IF score <= Mach1Max THEN [flightStatus |-> "approved", flightLabel |-> "MACH-1"]
    ELSE IF score <= LaminarMax THEN [flightStatus |-> "approved", flightLabel |-> "LAMINAR"]
    ELSE IF score <= TurbulentMax THEN [flightStatus |-> "turbulent", flightLabel |-> "TURBULENT"]
    ELSE [flightStatus |-> "rejected", flightLabel |-> "PURE CHAOS"]

\* worker.ts 525-572; confidence is kept in hundredths.
calculateEntropy(v) ==
    LET score == RoundDiv100(W1 * v.compressionRatio + W2 * v.ambiguityDensity
                             + W3 * v.specificityMass + W4 * v.structuralIntegrity)
        tier == flightTier(score)
    IN  [entropyScore |-> score,
         vectors |-> v,
         flightStatus |-> tier.flightStatus,
         flightLabel |-> tier.flightLabel,
         confidence |-> Max(0, Min(100, 100 - score))]

\* String.prototype.toUpperCase, word by word, over the vocabulary of the plans
upperWord(w) ==
    CASE w \in {"mission", "Mission", "MISSION"} -> "MISSION"
      [] w \in {"scrubbed", "Scrubbed", "SCRUBBED"} -> "SCRUBBED"
      [] w \in {"resubmit", "Resubmit"} -> "RESUBMIT"
      [] w \in {"with", "With"} -> "WITH"
      [] w \in {"phase", "Phase"} -> "PHASE"
      [] w = "ship" -> "SHIP"
      [] w = "redis" -> "REDIS"
      [] w = "cache" -> "CACHE"
      [] w = "detail" -> "DETAIL"
      [] w = "please" -> "PLEASE"
      [] w = "provide" -> "PROVIDE"
      [] w = "more" -> "MORE"
      [] w = "context" -> "CONTEXT"
      [] w = "is" -> "IS"
      [] OTHER -> w
toUpperCase(text) == [i \in 1..Len(text) |-> upperWord(text[i])]

\* worker.ts 576-583, upper-cased as line 585 does
VagueMarkers ==
    { <<"AWAITING", "MISSION", "BRIEF">>,
      <<"REQUIRED", "INTEL">>,
      <<"MISSION", "SCRUBBED">>,
      <<"CANNOT", "PROCEED", "WITHOUT">>,
      <<"PLEASE", "PROVIDE", "MORE">>,
      <<"RESUBMIT", "WITH">> }

Includes(text, m) ==
    \E i \in 1..(Len(text) - Len(m) + 1) : SubSeq(text, i, i + Len(m) - 1) = m

\* the marker search on the plan as written, without the upper-casing
isVagueResponse_casesensitive(flightPlan) ==
    \E m \in VagueMarkers : Includes(flightPlan, m)

\* worker.ts 575-586
isVagueResponse(flightPlan) ==
    \E m \in VagueMarkers : Includes(toUpperCase(flightPlan), m)

\* worker.ts 733-734
effectiveTier(mea, flightPlan) ==
    IF isVagueResponse(flightPlan)
    THEN [flightStatus |-> "turbulent", flightLabel |-> "TURBULENT"]
    ELSE [flightStatus |-> mea.flightStatus, flightLabel |-> mea.flightLabel]


(***************************************************************************)
(* processMission and its triggers (worker.ts, routes/missions.ts,         *)
(* routes/webhook.ts, scripts/create-missions-table.sql)                   *)
(***************************************************************************)
MaxMissions == 1
MaxSlots == 2

MissionIds == 1..MaxMissions
Slots == 1..MaxSlots
NoOwner == "<null>"
NullPlan == <<"<null>">>
OpenAiKeySet == TRUE

\* create-missions-table.sql line 5
AllowedStatuses == {"pending", "processing", "complete", "failed"}

\* Objectives users submit, one per tier (composite 0, 35, 64, 87).
MissionObjectives ==
    { Vectors(0, 0, 0, 0), Vectors(40, 30, 20, 70),
      Vectors(50, 40, 80, 70), Vectors(80, 80, 100, 70) }

\* Texts the plan-generation agent returns, as sequences of words; " " is a
\* stretch of whitespace, <<>> the empty (or missing) text.
GeneratedPlans ==
    { <<"Phase", "1", "ship", "redis", "cache">>,
      <<"Mission", "scrubbed", "resubmit", "with", "detail">>,
      <<"MISSION", "SCRUBBED">>,
      <<"please", "provide", "more", "context">>,
      <<"mission", "is", "scrubbed">>,
      <<" ">>,
      <<>> }

\* flightPlan.split(/\s+/).filter(Boolean)
PlanWords(plan) == SelectSeq(plan, LAMBDA w : w # " ")

\* worker.ts 719: !flightPlan || flightPlan.trim() === ""
isEmptyPlan(plan) == PlanWords(plan) = <<>>
AgentErrors == {"Request timed out", "Agent crashed"}
EmptyResponse == "Agent returned empty response"

\* What traceIntent resolves with inside processMission.
TraceResults == {CLEAN, Collision("src/auth.ts", "useContext(Auth)", "redundant payload")}

\* tracer.ts 207-214
formatCollisionReport(ctx) ==
    <<"# STATUS: REJECTED (MACH-TRACE)", ctx.source, ctx.snippet, ctx.reason>>

\* the failure text without the error message
failedPlan_nomessage(errorMessage) == <<"# STATUS: FAILED", "# ERROR">>

\* worker.ts 781
failedPlan(errorMessage) == <<"# STATUS: FAILED", "# ERROR", errorMessage>>

\* supabase.from("missions").update({status, flight_plan}).eq("id", id): the row
\* changes only if the new status passes the CHECK constraint; the error the
\* client returns otherwise is not looked at (worker.ts 635-638).
missionsUpdate(row, status, plan) ==
    IF status \in AllowedStatuses
    THEN [row EXCEPT !.status = status, !.flight_plan = plan]
    ELSE row

NoRow ==
    [exists |-> FALSE, status |-> "none", flight_plan |-> NullPlan,
     owner_id |-> NoOwner, repository_url |-> FALSE, objective |-> Vectors(0, 0, 0, 0)]

NoMea ==
    [entropyScore |-> -1, vectors |-> Vectors(0, 0, 0, 0), flightStatus |-> "none",
     flightLabel |-> "none", confidence |-> 0]
NoTier == [flightStatus |-> "none", flightLabel |-> "none"]
NoDeckArg ==
    [entropyScore |-> -1, confidence |-> 0, flightStatus |-> "none",
     flightLabel |-> "none", vectors |-> Vectors(0, 0, 0, 0), wordCount |-> 0]

Frame(pc, id) ==
    [pc |-> pc, id |-> id, ownerId |-> NoOwner, repositoryUrl |-> FALSE,
     trace |-> NoResult, agentCalls |-> 0, flightPlan |-> NullPlan,
     err |-> "", mea |-> NoMea, eff |-> NoTier, deckCalls |-> 0,
     deckArg |-> NoDeckArg, writes |-> <<>>, calls |-> <<>>]

MissionInit ==
    /\ m_db = [id \in MissionIds |-> NoRow]
    /\ m_runs = [r \in Slots |-> Frame("idle", 0)]
    /\ m_webhooks = {}

Running(r) == m_runs[r].pc \notin {"idle", "done"}
FreeSlots == {r \in Slots : ~Running(r)}

\* processMission(id, objective) is invoked: it runs up to its first await.
StartRun(r, id) == m_runs' = [m_runs EXCEPT ![r] = Frame("fetch", id)]

\* routes/missions.ts: POST /missions inserts the row as pending and fires
\* processMission without awaiting it; the insert also raises the INSERT webhook.
PostMission ==
    \E id \in MissionIds, obj \in MissionObjectives,
       owner \in {NoOwner, "u1"}, repo \in BOOLEAN :
        /\ ~m_db[id].exists
        /\ \A j \in MissionIds : j < id => m_db[j].exists
        /\ FreeSlots # {}
        /\ m_db' = [m_db EXCEPT ![id] =
                [exists |-> TRUE, status |-> "pending", flight_plan |-> NullPlan,
                 owner_id |-> owner, repository_url |-> repo, objective |-> obj]]
        /\ m_webhooks' = m_webhooks \cup {id}
        /\ StartRun(SetMin(FreeSlots), id)
        /\ UNCHANGED <<traceVars, vectorVars, libVars>>

\* POST /missions arriving while no run is executing: the single-flow
\* schedule, in which runs never overlap.
PostMissionSolo ==
    /\ \A r \in Slots : ~Running(r)
    /\ PostMission

\* routes/webhook.ts 50-76: the INSERT event carries the row as inserted
\* (status pending) and starts processMission.
WebhookInsert ==
    \E id \in m_webhooks :
        /\ FreeSlots # {}
        /\ m_webhooks' = m_webhooks \ {id}
        /\ StartRun(SetMin(FreeSlots), id)
        /\ UNCHANGED m_db
        /\ UNCHANGED <<traceVars, vectorVars, libVars>>

\* worker.ts 794-822: a polling tick takes the oldest mission still pending.
PendingIds == {id \in MissionIds : m_db[id].exists /\ m_db[id].status = "pending"}
pollAndProcessMissions ==
    /\ PendingIds # {}
    /\ FreeSlots # {}
    /\ StartRun(SetMin(FreeSlots), SetMin(PendingIds))
    /\ UNCHANGED <<m_db, m_webhooks>>
    /\ UNCHANGED <<traceVars, vectorVars, libVars>>


\* the deck-card decision without the turbulent skip
deckCardDue_noskip(effectiveStatus, ownerId) == ownerId # NoOwner

\* the deck-card decision skipping every tier that is not approved
deckCardDue_approvedonly(effectiveStatus, ownerId) ==
    effectiveStatus = "approved" /\ ownerId # NoOwner

\* worker.ts 754-771
deckCardDue(effectiveStatus, ownerId) ==
    effectiveStatus # "turbulent" /\ ownerId # NoOwner

\* worker.ts 758-765: wordCount = flightPlan.split(/\s+/).filter(Boolean).length
successDeckArg(mea, eff, flightPlan) ==
    [entropyScore |-> mea.entropyScore, confidence |-> mea.confidence,
     flightStatus |-> eff.flightStatus, flightLabel |-> eff.flightLabel,
     vectors |-> mea.vectors, wordCount |-> Len(PlanWords(flightPlan))]

\* worker.ts 642-649
collisionDeckArg(mea, collisionReport) ==
    [entropyScore |-> mea.entropyScore, confidence |-> 0,
     flightStatus |-> "rejected", flightLabel |-> "PURE CHAOS",
     vectors |-> mea.vectors, wordCount |-> Len(collisionReport)]

\* the completion write held back for runs classified turbulent
Write_skipturbulent(r, status, plan) ==
    m_db' = IF status = "complete" /\ m_runs[r].eff.flightStatus = "turbulent"
            THEN m_db
            ELSE [m_db EXCEPT ![m_runs[r].id] = missionsUpdate(@, status, plan)]

Write(r, status, plan) ==
    m_db' = [m_db EXCEPT ![m_runs[r].id] = missionsUpdate(@, status, plan)]

\* worker.ts 600-617: the mission record is read.
RunFetch(r) ==
    /\ m_runs[r].pc = "fetch"
    /\ LET row == m_db[m_runs[r].id]
       IN  m_runs' = [m_runs EXCEPT
               ![r].ownerId = row.owner_id,
               ![r].repositoryUrl = row.repository_url,
               ![r].pc = IF row.repository_url /\ OpenAiKeySet
                         THEN "ingest" ELSE "processing"]
    /\ UNCHANGED <<m_db, m_webhooks>>
    /\ UNCHANGED <<traceVars, vectorVars, libVars>>

\* What the collision stage ends with when one of its calls throws.
Thrown == [status |-> "THROWN", ctx |-> NoCtx]

\* the catch of the collision stage passing the exception on
traceCatch_rethrow(traceErr) == "fail"

\* worker.ts 658-660: the catch of the collision stage logs the exception and
\* the run goes on to the processing write
traceCatch(traceErr) == "processing"

\* worker.ts 619-624: the services are built and the repo is ingested; an
\* exception lands in the catch of line 658.
RunIngest(r) ==
    /\ m_runs[r].pc = "ingest"
    /\ \E ok \in BOOLEAN :
        m_runs' = [m_runs EXCEPT
            ![r].pc = IF ok THEN "trace" ELSE traceCatch(Thrown),
            ![r].trace = IF ok THEN @ ELSE Thrown]
    /\ UNCHANGED <<m_db, m_webhooks>>
    /\ UNCHANGED <<traceVars, vectorVars, libVars>>

\* worker.ts 628-630: traceIntent resolves, or throws into the catch of
\* line 658.
RunTrace(r) ==
    /\ m_runs[r].pc = "trace"
    /\ \E res \in TraceResults \cup {Thrown} :
        m_runs' = [m_runs EXCEPT
            ![r].trace = res,
            ![r].calls = Append(@, "traceIntent"),
            ![r].pc = IF res = Thrown THEN traceCatch(res)
                      ELSE IF res.status = "COLLISION" /\ res.ctx # NoCtx
                      THEN "reject" ELSE "processing"]
    /\ UNCHANGED <<m_db, m_webhooks>>
    /\ UNCHANGED <<traceVars, vectorVars, libVars>>

\* the rejection falling through to the generation stage
afterReject_fallthrough(ownerId) == "processing"

\* worker.ts 641-654: after the rejected write the collision card is emitted
\* for a known owner, and the run returns
afterReject(ownerId) == IF ownerId # NoOwner THEN "collisionCard" ELSE "done"

\* worker.ts 631-641: the rejection is written.
RunReject(r) ==
    /\ m_runs[r].pc = "reject"
    /\ Write(r, "rejected", formatCollisionReport(m_runs[r].trace.ctx))
    /\ m_runs' = [m_runs EXCEPT
           ![r].writes = Append(@, "rejected"),
           ![r].pc = afterReject(m_runs[r].ownerId)]
    /\ UNCHANGED m_webhooks
    /\ UNCHANGED <<traceVars, vectorVars, libVars>>

\* worker.ts 642-654: the collision card, then return.
RunCollisionCard(r) ==
    /\ m_runs[r].pc = "collisionCard"
    /\ LET mea == calculateEntropy(m_db[m_runs[r].id].objective)
       IN  m_runs' = [m_runs EXCEPT
               ![r].mea = mea,
               ![r].calls = @ \o <<"calculateEntropy", "generateDeckCards">>,
               ![r].deckCalls = @ + 1,
               ![r].deckArg = collisionDeckArg(mea,
                                  formatCollisionReport(m_runs[r].trace.ctx)),
               ![r].pc = "done"]
    /\ UNCHANGED <<m_db, m_webhooks>>
    /\ UNCHANGED <<traceVars, vectorVars, libVars>>

\* worker.ts 665-695: status -> processing, then the agent's set-up, which may throw.
RunProcessing(r) ==
    /\ m_runs[r].pc = "processing"
    /\ Write(r, "processing", m_db[m_runs[r].id].flight_plan)
    /\ \E ok \in BOOLEAN :
        m_runs' = [m_runs EXCEPT
            ![r].writes = Append(@, "processing"),
            ![r].err = IF ok THEN @ ELSE "Workspace unavailable",
            ![r].pc = IF ok THEN "agent" ELSE "fail"]
    /\ UNCHANGED m_webhooks
    /\ UNCHANGED <<traceVars, vectorVars, libVars>>

\* the objective scored before the plan is generated
generationSteps_scorefirst ==
    <<"calculateEntropy", "runEmbeddedPiAgent", "isVagueResponse", "isVagueResponse">>

\* worker.ts 697-734: the calls of the success path, in the order made
generationSteps ==
    <<"runEmbeddedPiAgent", "calculateEntropy", "isVagueResponse", "isVagueResponse">>

\* worker.ts 697-734: plan generation, the empty check, MEA and the override.
RunAgent(r) ==
    /\ m_runs[r].pc = "agent"
    /\ \/ \E e \in AgentErrors :
            m_runs' = [m_runs EXCEPT
                ![r].agentCalls = @ + 1, ![r].err = e, ![r].pc = "fail",
                ![r].calls = Append(@, "runEmbeddedPiAgent")]
       \/ \E plan \in GeneratedPlans :
            IF isEmptyPlan(plan)
            THEN m_runs' = [m_runs EXCEPT
                     ![r].agentCalls = @ + 1, ![r].err = EmptyResponse, ![r].pc = "fail",
                     ![r].calls = Append(@, "runEmbeddedPiAgent")]
            ELSE LET mea == calculateEntropy(m_db[m_runs[r].id].objective)
                 IN  m_runs' = [m_runs EXCEPT
                         ![r].agentCalls = @ + 1,
                         ![r].calls = @ \o generationSteps,
                         ![r].flightPlan = plan,
                         ![r].mea = mea,
                         ![r].eff = effectiveTier(mea, plan),
                         ![r].pc = "complete"]
    /\ UNCHANGED <<m_db, m_webhooks>>
    /\ UNCHANGED <<traceVars, vectorVars, libVars>>

\* worker.ts 737-771: status -> complete, then the deck-card decision.
RunComplete(r) ==
    /\ m_runs[r].pc = "complete"
    /\ Write(r, "complete", m_runs[r].flightPlan)
    /\ m_runs' = [m_runs EXCEPT
           ![r].writes = Append(@, "complete"),
           ![r].pc = IF deckCardDue(m_runs[r].eff.flightStatus, m_runs[r].ownerId)
                     THEN "card" ELSE "done"]
    /\ UNCHANGED m_webhooks
    /\ UNCHANGED <<traceVars, vectorVars, libVars>>

\* worker.ts 759-768: generateDeckCards is called and awaited.
RunCard(r) ==
    /\ m_runs[r].pc = "card"
    /\ m_runs' = [m_runs EXCEPT
           ![r].deckCalls = @ + 1,
           ![r].calls = Append(@, "generateDeckCards"),
           ![r].deckArg = successDeckArg(m_runs[r].mea, m_runs[r].eff, m_runs[r].flightPlan),
           ![r].pc = "done"]
    /\ UNCHANGED <<m_db, m_webhooks>>
    /\ UNCHANGED <<traceVars, vectorVars, libVars>>

\* worker.ts 772-786: the catch writes the failure.
RunFail(r) ==
    /\ m_runs[r].pc = "fail"
    /\ Write(r, "failed", failedPlan(m_runs[r].err))
    /\ m_runs' = [m_runs EXCEPT ![r].writes = Append(@, "failed"), ![r].pc = "done"]
    /\ UNCHANGED m_webhooks
    /\ UNCHANGED <<traceVars, vectorVars, libVars>>

(***************************************************************************)
(* calculateEntropy: the composite over given vector values (worker.ts)    *)
(***************************************************************************)
NoInput == <<"<none>">>
VectorRange == 0..100

\* Vector values the four scorers can return: every uniform quadruple (whose
\* composite is the value itself), a grid, and a quadruple whose weighted sum
\* ends in .5.
GridValues == {0, 33, 70, 80, 100}
VectorGrid ==
    {Vectors(x, x, x, x) : x \in VectorRange}
    \cup {Vectors(a, b, c, d) : a \in GridValues, b \in GridValues,
                                c \in GridValues, d \in GridValues}
    \cup {Vectors(1, 0, 3, 2)}

TierInit ==
    /\ g_vectors = Vectors(0, 0, 0, 0)
    /\ g_result = NoMea

\* worker.ts 531-572 for the vector values rho, sigma, mu, pi
Classify ==
    \E v \in VectorGrid :
        /\ g_vectors' = v
        /\ g_result' = calculateEntropy(v)
        /\ UNCHANGED <<e_text, e_result, e_seen, chunkVars>>
        /\ UNCHANGED <<traceVars, vectorVars, missionVars>>

ScoreInit ==
    /\ e_text = NoInput
    /\ e_result = NoMea
    /\ e_seen = <<>>

ChunkInit ==
    /\ c_text = NoInput
    /\ c_budget = 0
    /\ c_chunks = <<>>

(***************************************************************************)
(* chunkText (services/vector.ts).  A text is a sequence of characters.    *)
(***************************************************************************)
MaxChunkTextLen == 6
MaxBudget == 3

NL == "\n"
ChunkTexts == UNION {[1..k -> {"a", NL}] : k \in 0..MaxChunkTextLen}
Budgets == 1..MaxBudget

\* text.split("\n"): the pieces between the newlines, empty ones included
RECURSIVE SplitFrom(_, _, _)
SplitFrom(text, i, piece) ==
    IF i > Len(text) THEN <<piece>>
    ELSE IF text[i] = NL THEN <<piece>> \o SplitFrom(text, i + 1, <<>>)
    ELSE SplitFrom(text, i + 1, Append(piece, text[i]))
splitLines(text) == SplitFrom(text, 1, <<>>)

\* vector.ts 219-226: the loop over the lines, from line i on
RECURSIVE ChunkLoop(_, _, _, _, _)
ChunkLoop(lines, i, maxChars, chunks, current) ==
    IF i > Len(lines)
    THEN IF current # <<>> THEN Append(chunks, current) ELSE chunks
    ELSE IF Len(current) + Len(lines[i]) + 1 > maxChars /\ Len(current) > 0
         THEN ChunkLoop(lines, i + 1, maxChars, Append(chunks, current), lines[i])
         ELSE ChunkLoop(lines, i + 1, maxChars, chunks,
                        current \o (IF current # <<>> THEN <<NL>> ELSE <<>>) \o lines[i])

\* vector.ts 212-230
chunkText(text, maxChars) ==
    IF Len(text) <= maxChars THEN <<text>>
    ELSE ChunkLoop(splitLines(text), 1, maxChars, <<>>, <<>>)

\* chunkText(text, maxChars) is called and returns.
ChunkCall ==
    \E text \in ChunkTexts, maxChars \in Budgets :
        /\ c_text' = text
        /\ c_budget' = maxChars
        /\ c_chunks' = chunkText(text, maxChars)
        /\ UNCHANGED meaVars
        /\ UNCHANGED <<traceVars, vectorVars, missionVars>>

(***************************************************************************)
(* The four lexical scorers (worker.ts 419-518).  A text is a sequence of  *)
(* characters, here ASCII, so that its UTF-8 length is its length.         *)
(***************************************************************************)
Digits == {"0", "1", "2", "3", "4", "5", "6", "7", "8", "9"}
LowerCase ==
    <<"a", "b", "c", "d", "e", "f", "g", "h", "i", "j", "k", "l", "m",
      "n", "o", "p", "q", "r", "s", "t", "u", "v", "w", "x", "y", "z">>
UpperCase ==
    <<"A", "B", "C", "D", "E", "F", "G", "H", "I", "J", "K", "L", "M",
      "N", "O", "P", "Q", "R", "S", "T", "U", "V", "W", "X", "Y", "Z">>
IsUpper(c) == \E i \in DOMAIN UpperCase : UpperCase[i] = c
IsLower(c) == \E i \in DOMAIN LowerCase : LowerCase[i] = c
\* \w and \s
IsWordChar(c) == IsUpper(c) \/ IsLower(c) \/ c \in Digits \/ c = "_"
IsSpace(c) == c \in {" ", NL, "\t"}

lowerChar(c) ==
    IF IsUpper(c) THEN LowerCase[CHOOSE i \in DOMAIN UpperCase : UpperCase[i] = c] ELSE c
toLowerCase(text) == [i \in 1..Len(text) |-> lowerChar(text[i])]

\* the character at position i, "" outside the text
At(text, i) == IF i >= 1 /\ i <= Len(text) THEN text[i] ELSE ""

\* the characters joined to one string, by halves
RECURSIVE Str(_)
Str(chars) ==
    IF chars = <<>> THEN ""
    ELSE IF Len(chars) = 1 THEN chars[1]
    ELSE Str(SubSeq(chars, 1, Len(chars) \div 2))
            \o Str(SubSeq(chars, Len(chars) \div 2 + 1, Len(chars)))
\* the lower-cased text between positions i and j, as a string
LowerSlice(text, i, j) == Str([k \in 1..(j - i + 1) |-> lowerChar(text[i + k - 1])])
Slice(text, i, j) == Str(SubSeq(text, i, j))

\* last position of the stretch of characters satisfying a class test that
\* begins at i (i - 1 if there is none)
WordEnd(text, i) ==
    LET stops == {k \in i..Len(text) : ~IsWordChar(text[k])}
    IN  IF stops = {} THEN Len(text) ELSE SetMin(stops) - 1
DigitEnd(text, i) ==
    LET stops == {k \in i..Len(text) : text[k] \notin Digits}
    IN  IF stops = {} THEN Len(text) ELSE SetMin(stops) - 1

\* positions where a maximal stretch of \w characters begins: the places where
\* a \b(...)\b alternative over plain words can match
WordStarts(text) ==
    {i \in 1..Len(text) : IsWordChar(text[i]) /\ ~IsWordChar(At(text, i - 1))}
DigitStarts(text) ==
    {i \in 1..Len(text) : text[i] \in Digits /\ At(text, i - 1) \notin Digits}
\* the word at i, lower-cased
WordAt(text, i) == LowerSlice(text, i, WordEnd(text, i))

\* \b<phrase>\b at position i, the words of the phrase separated by one space
RECURSIVE PhraseAt(_, _, _)
PhraseAt(text, i, phrase) ==
    /\ IsWordChar(At(text, i))
    /\ WordAt(text, i) = phrase[1]
    /\ \/ Len(phrase) = 1
       \/ /\ At(text, WordEnd(text, i) + 1) = " "
          /\ PhraseAt(text, WordEnd(text, i) + 2, Tail(phrase))

\* number of matches of /\b(p1|p2|...)\b/gi for a set of phrases none of which
\* can begin inside another's match
CountPhrases(text, phrases) ==
    Cardinality({i \in WordStarts(text) :
                    LET w == WordAt(text, i)
                    IN  \E ph \in phrases : ph[1] = w /\ PhraseAt(text, i, ph)})

\* text.split(/\s+/).filter(Boolean).length
WordCount(text) ==
    Cardinality({i \in 1..Len(text) :
                    ~IsSpace(text[i]) /\ (i = 1 \/ IsSpace(text[i - 1]))})

\* Math.round(num / den) without the clamp
RoundClamp_noclamp(num, den) == (2 * num + den) \div (2 * den)

\* Math.round(Math.max(0, Math.min(100, num / den))) for den > 0
RoundClamp(num, den) ==
    IF num <= 0 THEN 0
    ELSE IF num >= 100 * den THEN 100
    ELSE (2 * num + den) \div (2 * den)

\* Math.log2(k) in ten-thousandths, for k = 1..200
Log2E4 ==
    <<
      0, 10000, 15850, 20000, 23219, 25850, 28074, 30000, 31699, 33219,
      34594, 35850, 37004, 38074, 39069, 40000, 40875, 41699, 42479, 43219,
      43923, 44594, 45236, 45850, 46439, 47004, 47549, 48074, 48580, 49069,
      49542, 50000, 50444, 50875, 51293, 51699, 52095, 52479, 52854, 53219,
      53576, 53923, 54263, 54594, 54919, 55236, 55546, 55850, 56147, 56439,
      56724, 57004, 57279, 57549, 57814, 58074, 58329, 58580, 58826, 59069,
      59307, 59542, 59773, 60000, 60224, 60444, 60661, 60875, 61085, 61293,
      61497, 61699, 61898, 62095, 62288, 62479, 62668, 62854, 63038, 63219,
      63399, 63576, 63750, 63923, 64094, 64263, 64429, 64594, 64757, 64919,
      65078, 65236, 65392, 65546, 65699, 65850, 65999, 66147, 66294, 66439,
      66582, 66724, 66865, 67004, 67142, 67279, 67415, 67549, 67682, 67814,
      67944, 68074, 68202, 68329, 68455, 68580, 68704, 68826, 68948, 69069,
      69189, 69307, 69425, 69542, 69658, 69773, 69887, 70000, 70112, 70224,
      70334, 70444, 70553, 70661, 70768, 70875, 70980, 71085, 71189, 71293,
      71396, 71497, 71599, 71699, 71799, 71898, 71997, 72095, 72192, 72288,
      72384, 72479, 72574, 72668, 72761, 72854, 72946, 73038, 73129, 73219,
      73309, 73399, 73487, 73576, 73663, 73750, 73837, 73923, 74009, 74094,
      74179, 74263, 74346, 74429, 74512, 74594, 74676, 74757, 74838, 74919,
      74998, 75078, 75157, 75236, 75314, 75392, 75469, 75546, 75622, 75699,
      75774, 75850, 75925, 75999, 76073, 76147, 76221, 76294, 76366, 76439
    >>

\* worker.ts 433-451
\* count * log2(count) of the character at position i, entered once, at
\* the character's first position
CountLogAt(lower, i) ==
    IF \E k \in 1..(i - 1) : lower[k] = lower[i] THEN 0
    ELSE LET count == Cardinality({k \in 1..Len(lower) : lower[k] = lower[i]})
         IN  count * Log2E4[count]
\* the sum over the positions a..b, by halves
RECURSIVE SumCountLog(_, _, _)
SumCountLog(lower, a, b) ==
    IF a > b THEN 0
    ELSE IF a = b THEN CountLogAt(lower, a)
    ELSE SumCountLog(lower, a, (a + b) \div 2)
            + SumCountLog(lower, (a + b) \div 2 + 1, b)

\* shannonH * lower.length, in ten-thousandths of a bit
ShannonTimesLen(lower) ==
    Len(lower) * Log2E4[Len(lower)] - SumCountLog(lower, 1, Len(lower))

calcAmbiguityDensity(text) ==
    IF Len(text) < 5 THEN 80
    ELSE LET lower == toLowerCase(text)
         IN  RoundClamp((50000 * Len(lower) - ShannonTimesLen(lower)) * 50,
                        10000 * Len(lower))

\* worker.ts 464: the alternatives after the number
UnitNames == {"%", "ms", "s", "px", "rem", "em", "gb", "mb", "kb", "$"}
UnitAt(text, p) ==
    \/ \E n \in 1..3 :
          p + n - 1 <= Len(text) /\ LowerSlice(text, p, p + n - 1) \in UnitNames
    \/ lowerChar(At(text, p)) = "k" /\ ~IsWordChar(At(text, p + 1))

\* /\d+(\.\d+)?(%|ms|...)/gi at the stretch of digits that begins at i
NumberUnitAt(text, i) ==
    LET b == DigitEnd(text, i)
    IN  \/ UnitAt(text, b + 1)
        \/ /\ At(text, b + 1) = "."
           /\ At(text, b + 2) \in Digits
           /\ UnitAt(text, DigitEnd(text, b + 2) + 1)
\* the digits at i are the fraction of a match that began at the digits before
InsideDecimal(text, i) ==
    /\ At(text, i - 1) = "."
    /\ At(text, i - 2) \in Digits
    /\ UnitAt(text, DigitEnd(text, i) + 1)
CountNumberUnits(text) ==
    Cardinality({i \in DigitStarts(text) :
                    NumberUnitAt(text, i) /\ ~InsideDecimal(text, i)})

\* worker.ts 466: /\b\d{2,}\b/g
CountBareNumbers(text) ==
    Cardinality({i \in WordStarts(text) :
                    /\ WordEnd(text, i) >= i + 1
                    /\ \A k \in i..WordEnd(text, i) : text[k] \in Digits})

\* worker.ts 469: /[\w-]+\.(ts|js|...)/g, the alternatives in their order
FileExts ==
    <<"ts", "js", "tsx", "jsx", "py", "rs", "go", "sql", "json", "yaml", "yml",
      "md", "css", "html">>
ExtLenAt(text, p) ==
    LET hits == {k \in DOMAIN FileExts :
                    /\ p + Len(FileExts[k]) - 1 <= Len(text)
                    /\ Slice(text, p, p + Len(FileExts[k]) - 1) = FileExts[k]}
    IN  IF hits = {} THEN 0 ELSE Len(FileExts[SetMin(hits)])
\* the dots after lastEnd that end a name and begin an extension; the match
\* of the first one is counted and the search goes on after its extension
RECURSIVE CountFilePathsFrom(_, _)
CountFilePathsFrom(text, lastEnd) ==
    LET dots == {d \in (lastEnd + 2)..Len(text) :
                    /\ text[d] = "."
                    /\ (IsWordChar(text[d - 1]) \/ text[d - 1] = "-")
                    /\ ExtLenAt(text, d + 1) > 0}
    IN  IF dots = {} THEN 0
        ELSE 1 + CountFilePathsFrom(text, SetMin(dots)
                                            + ExtLenAt(text, SetMin(dots) + 1))
CountFilePaths(text) == CountFilePathsFrom(text, 0)

\* worker.ts 470: /(?:src|lib|api|routes|components|pages|hooks)\//g
DirNames == {"src", "lib", "api", "routes", "components", "pages", "hooks"}
CountDirPrefixes(text) ==
    Cardinality({p \in 1..Len(text) :
                    /\ text[p] = "/"
                    /\ \E n \in DirNames :
                          p - Len(n) >= 1 /\ Slice(text, p - Len(n), p - 1) = n})

\* worker.ts 473
TechTerms ==
    {
      <<"react">>, <<"vue">>, <<"angular">>, <<"svelte">>, <<"next">>,
      <<"nuxt">>, <<"express">>, <<"fastify">>, <<"postgres">>,
      <<"postgresql">>, <<"mysql">>, <<"mongodb">>, <<"redis">>,
      <<"docker">>, <<"kubernetes">>, <<"k8s">>, <<"aws">>, <<"gcp">>,
      <<"azure">>, <<"supabase">>, <<"firebase">>, <<"graphql">>, <<"rest">>,
      <<"jwt">>, <<"oauth">>, <<"websocket">>, <<"sse">>, <<"grpc">>,
      <<"typescript">>, <<"python">>, <<"rust">>, <<"golang">>, <<"node">>,
      <<"deno">>, <<"bun">>, <<"vite">>, <<"webpack">>, <<"tailwind">>,
      <<"prisma">>, <<"drizzle">>, <<"stripe">>, <<"twilio">>,
      <<"sendgrid">>, <<"vercel">>, <<"netlify">>, <<"cloudflare">>
    }

\* worker.ts 477; "must not" never matches, "must" being tried before it
ConstraintPhrases ==
    { <<"must">>, <<"shall">>, <<"should", "not">>, <<"at", "least">>,
      <<"at", "most">>, <<"no", "more", "than">>, <<"maximum">>, <<"minimum">>,
      <<"latency">>, <<"throughput">>, <<"uptime">> }
\* the alternative /within \d/ between word boundaries
WithinDigitAt(text, i) ==
    LET e == WordEnd(text, i)
    IN  /\ WordAt(text, i) = "within"
        /\ At(text, e + 1) = " "
        /\ At(text, e + 2) \in Digits
        /\ ~IsWordChar(At(text, e + 3))
CountConstraints(text) ==
    CountPhrases(text, ConstraintPhrases)
        + Cardinality({i \in WordStarts(text) : WithinDigitAt(text, i)})

\* worker.ts 461-477
entityCount(text) ==
    CountNumberUnits(text) + CountBareNumbers(text) + CountFilePaths(text)
        + CountDirPrefixes(text) + CountPhrases(text, TechTerms)
        + CountConstraints(text)

\* the scorer without its empty-input return
calcSpecificityMass_nofloor(text) ==
    RoundClamp((15 * WordCount(text) - 100 * entityCount(text)) * 667,
               100 * WordCount(text))

\* worker.ts 457-486: (0.15 - entityCount / words) * 667
calcSpecificityMass(text) ==
    IF WordCount(text) = 0 THEN 100
    ELSE RoundClamp((15 * WordCount(text) - 100 * entityCount(text)) * 667,
                    100 * WordCount(text))

\* worker.ts 496-508: the position p holds the first character of its line
\* that is not white space
FirstOnLine(text, p) ==
    LET nls == {k \in 1..(p - 1) : text[k] = NL}
        lineStart == IF nls = {} THEN 1 ELSE SetMax(nls) + 1
    IN  \A k \in lineStart..(p - 1) : IsSpace(text[k])
\* /^\s*\d+[.)]\s/gm
NumberedAt(text, p) ==
    /\ text[p] \in Digits
    /\ At(text, DigitEnd(text, p) + 1) \in {".", ")"}
    /\ IsSpace(At(text, DigitEnd(text, p) + 2))
\* /^\s*[-*]\s/gm
BulletAt(text, p) == text[p] \in {"-", "*"} /\ IsSpace(At(text, p + 1))
\* /^\s*#{1,4}\s/gm
HeaderAt(text, p) ==
    /\ text[p] = "#"
    /\ \E h \in 1..4 :
          /\ \A k \in p..(p + h - 1) : At(text, k) = "#"
          /\ IsSpace(At(text, p + h))
CountLineMarkers(text) ==
    Cardinality({p \in 1..Len(text) : FirstOnLine(text, p) /\ NumberedAt(text, p)})
        + Cardinality({p \in 1..Len(text) : FirstOnLine(text, p) /\ BulletAt(text, p)})
        + Cardinality({p \in 1..Len(text) : FirstOnLine(text, p) /\ HeaderAt(text, p)})

\* /^[A-Z][A-Z\s]{5,}$/gm: the ends a match that begins at p may have; the
\* class holds the line break, so the match runs on over capital lines
CapsEnds(text, p) ==
    {e \in (p + 5)..Len(text) :
        /\ \A k \in (p + 1)..e : IsUpper(text[k]) \/ IsSpace(text[k])
        /\ (e = Len(text) \/ text[e + 1] = NL)}
\* the first line start from p on where a match begins is counted, and the
\* search goes on after the match
RECURSIVE CountCapsFrom(_, _)
CountCapsFrom(text, p) ==
    LET starts == {q \in p..Len(text) :
                      /\ (q = 1 \/ text[q - 1] = NL)
                      /\ IsUpper(text[q])
                      /\ CapsEnds(text, q) # {}}
    IN  IF starts = {} THEN 0
        ELSE 1 + CountCapsFrom(text, SetMax(CapsEnds(text, SetMin(starts))) + 1)

\* worker.ts 506
ConditionalPhrases ==
    { <<"if">>, <<"when">>, <<"unless">>, <<"otherwise">>, <<"else">>, <<"then">>,
      <<"given", "that">> }
\* worker.ts 508
TimelinePhrases ==
    { <<"phase">>, <<"sprint">>, <<"week">>, <<"day">>, <<"milestone">>,
      <<"deadline">>, <<"timeline">> }
\* the alternative /by \w+day/ between word boundaries
ByDayAt(text, i) ==
    LET e == WordEnd(text, i)
        e2 == WordEnd(text, e + 2)
    IN  /\ WordAt(text, i) = "by"
        /\ At(text, e + 1) = " "
        /\ IsWordChar(At(text, e + 2))
        /\ e2 - (e + 2) + 1 >= 4
        /\ LowerSlice(text, e2 - 2, e2) = "day"

markers(text) ==
    CountLineMarkers(text) + CountCapsFrom(text, 1)
        + CountPhrases(text, ConditionalPhrases)
        + CountPhrases(text, TimelinePhrases)
        + Cardinality({i \in WordStarts(text) : ByDayAt(text, i)})

\* worker.ts 492-518: expected = max(3, words / 30), taken thirty-fold
calcStructuralIntegrity(text) ==
    IF WordCount(text) < 10 THEN 70
    ELSE LET expected30 == Max(3 * 30, WordCount(text))
         IN  RoundClamp((expected30 - 30 * markers(text)) * 100, expected30)

(***************************************************************************)
(* The texts scored                                                        *)
(***************************************************************************)
TextEmpty == <<>>
TextLetter ==
    <<"a">>
TextBlank ==
    <<" ">>
TextDigit ==
    <<"5">>
TextBuildAThing ==
    <<"B", "u", "i", "l", "d", " ", "a", " ", "t", "h", "i", "n", "g">>
TextFourLetters ==
    <<"a", "a", "a", "a">>
TextSevenLetters ==
    <<"a", "b", "c", "d", "e", "f", "g">>
TextRepeated == [i \in 1..100 |-> "a"]
TextRedis ==
    <<"u", "s", "e", " ", "r", "e", "d", "i", "s", " ", "5", "0", "m", "s">>
TextConditions ==
    <<"i", "f", " ", "a", " ", "t", "h", "e", "n", " ", "b", " ", "e", "l",
      "s", "e", " ", "c", " ", "w", "h", "e", "n", " ", "d", " ", "u", "n",
      "l", "e", "s", "s", " ", "e", " ", "f", " ", "g", " ", "h">>
TextLogin ==
    <<"w", "e", " ", "m", "u", "s", "t", " ", "a", "d", "d", " ", "a", " ",
      "l", "o", "g", "i", "n", " ", "p", "a", "g", "e", " ", "f", "o", "r",
      " ", "u", "s", "e", "r", "s", " ", "i", "n", " ", "o", "n", "e", " ",
      "w", "e", "e", "k", " ", "o", "k">>
TextAlphabet ==
    <<"a", "b", "c", "d", "e", "f", "g", "h", "i", "j", "k", "l", "m", "n",
      "o", "p", "q", "r", "s", "t", "u", "v", "w", "x", "y", "z", "0", "1",
      "2", "3", "4", "5", "6", "7", "8", "9">>
TextLong ==
    [i \in 1..186 |-> IF i % 2 = 1 THEN "x" ELSE " "]
        \o <<"i", "f", " ", "t", "h", "e", "n">>
TextOutline ==
    <<"#", " ", "P", "L", "A", "N", NL, "S", "E", "T", "U", "P", " ", "N",
      "O", "W", NL, NL, " ", "1", ".", " ", "s", "r", "c", "/", "a", "p",
      "p", ".", "t", "s", " ", "2", ".", "5", "s", NL, "-", " ", "a", "t",
      " ", "l", "e", "a", "s", "t", " ", "9", "9", ".", "5", "%", " ", "U",
      "p", "t", "i", "m", "e", NL, "*", " ", "b", "y", " ", "F", "r", "i",
      "d", "a", "y", " ", "2", ")", " ", "x", " ", "1", ".", "5", ".", "2",
      "k", NL, "E", "N", "D", "I", "N", "G", NL, "X">>

ScoreTexts ==
    { TextEmpty, TextLetter, TextBlank, TextDigit,
      TextBuildAThing, TextFourLetters, TextSevenLetters, TextRepeated,
      TextRedis, TextConditions, TextLogin, TextAlphabet,
      TextLong, TextOutline }

\* worker.ts 421-422: deflateSync(raw).length, the size of zlib's output at
\* its default level for each of the texts of ten characters and more
deflatedLength(text) ==
    CASE text = TextBuildAThing -> 21
      [] text = TextRepeated -> 12
      [] text = TextRedis -> 22
      [] text = TextConditions -> 45
      [] text = TextLogin -> 54
      [] text = TextAlphabet -> 44
      [] text = TextLong -> 20
      [] text = TextOutline -> 101

\* worker.ts 419-427: (1 - compressed.length / raw.length) * 125
calcCompressionRatio(text) ==
    IF Len(text) < 10 THEN 80
    ELSE RoundClamp((Len(text) - deflatedLength(text)) * 125, Len(text))

\* worker.ts 525-529: the four vectors of each text, computed once
scoredVectors ==
    [text \in ScoreTexts |->
        Vectors(calcCompressionRatio(text), calcAmbiguityDensity(text),
                calcSpecificityMass(text), calcStructuralIntegrity(text))]
textVectors(text) == scoredVectors[text]

\* a scorer whose compression vector is left over from the call before
scoreText_leftover(text) ==
    IF e_text = NoInput THEN calculateEntropy(textVectors(text))
    ELSE calculateEntropy([textVectors(text) EXCEPT
                              !.compressionRatio = textVectors(e_text).compressionRatio])

\* worker.ts 525-572: calculateEntropy(text)
scoreText(text) == calculateEntropy(textVectors(text))

MaxScoreCalls == 3

\* one call of calculateEntropy, entered in the log of calls
ScoreCall ==
    /\ Len(e_seen) < MaxScoreCalls
    /\ \E text \in ScoreTexts :
          LET result == scoreText(text)
          IN  /\ e_text' = text
              /\ e_result' = result
              /\ e_seen' = Append(e_seen, [text |-> text, result |-> result])
    /\ UNCHANGED <<g_vectors, g_result, chunkVars>>
    /\ UNCHANGED <<traceVars, vectorVars, missionVars>>

(***************************************************************************)
(* Specifications                                                          *)
(***************************************************************************)
Init == TraceInit /\ VectorInit /\ MissionInit /\ TierInit /\ ScoreInit /\ ChunkInit

TraceNext ==
    \/ TraceCall
    \/ TraceGuard
    \/ TraceExtract
    \/ TraceRetrieve
    \/ TraceAudit
    \/ TraceReturn

IngestNext ==
    \E c \in Callers :
        \/ IngestCall(c)
        \/ IngestDedup(c)
        \/ IngestTree(c)
        \/ IngestBatch(c)
        \/ IngestReadme(c)
        \/ IngestStore(c)

\* One caller, one call at a time, on a store that holds nothing yet; the
\* fetches of a batch settle one by one.
FetchNext ==
    \/ (v_started = 0 /\ IngestCall(1))
    \/ IngestDedup(1)
    \/ IngestLargeTree(1)
    \/ IngestBatchStart(1)
    \/ IngestFetchSettle(1)
    \/ IngestReadme(1)
    \/ IngestStore(1)

MissionNext ==
    \/ PostMission
    \/ WebhookInsert
    \/ pollAndProcessMissions
    \/ \E r \in Slots :
        \/ RunFetch(r)
        \/ RunIngest(r)
        \/ RunTrace(r)
        \/ RunReject(r)
        \/ RunCollisionCard(r)
        \/ RunProcessing(r)
        \/ RunAgent(r)
        \/ RunComplete(r)
        \/ RunCard(r)
        \/ RunFail(r)

\* one processMission run at a time, started by POST /missions only
RunNext ==
    \/ PostMissionSolo
    \/ \E r \in Slots :
        \/ RunFetch(r)
        \/ RunIngest(r)
        \/ RunTrace(r)
        \/ RunReject(r)
        \/ RunCollisionCard(r)
        \/ RunProcessing(r)
        \/ RunAgent(r)
        \/ RunComplete(r)
        \/ RunCard(r)
        \/ RunFail(r)

SpecTrace == Init /\ [][TraceNext]_vars
SpecRun == Init /\ [][RunNext]_vars
SpecIngest == Init /\ [][IngestNext]_vars
SpecFetch == Init /\ [][FetchNext]_vars
SpecMission == Init /\ [][MissionNext]_vars
TierNext == Classify
SpecTier == Init /\ [][TierNext]_vars
ChunkNext == ChunkCall
ScoreNext == ScoreCall
SpecScore == Init /\ [][ScoreNext]_vars
SpecChunk == Init /\ [][ChunkNext]_vars
Next ==
    TraceNext \/ IngestNext \/ FetchNext \/ MissionNext \/ TierNext \/ ChunkNext
        \/ ScoreNext
Spec == Init /\ [][Next]_vars


(***************************************************************************)
(* Properties of MachTracer.traceIntent (under SpecTrace)                  *)
(***************************************************************************)
TraceReturned == t_pc \in {"done", "idle"} /\ t_result # NoResult

\* C1: whatever the vector store and the oracle do (return or throw),
\* traceIntent never rejects, and what it resolves with is CLEAN or COLLISION.
C1_TraceAlwaysResolves ==
    /\ t_pc # "rejected"
    /\ t_pc = "done" => t_result.status \in {"CLEAN", "COLLISION"}

\* A call that resolved although the probe search threw outside the try block.
C1_Witness ==
    /\ t_pc = "done"
    /\ t_probe = "threw"
    /\ t_result.status = "CLEAN"

AfterGuardCalls == {"extract", "code", "doc", "audit", "parse"}
CaughtCalls == {"code", "doc", "audit", "parse"}

\* C2 as stated: if any call after the pass-through guard throws, the entity
\* extraction call included, traceIntent returns CLEAN.
C2_AnyThrowIsClean ==
    (t_pc = "done" /\ t_threw \cap AfterGuardCalls # {}) => t_result = CLEAN

\* C2 amended: a throw of either similarity search, of the adjudication call or
\* of the parsing of its reply makes traceIntent return CLEAN; a throw of the
\* entity-extraction call is absorbed by extractEntities and never rejects
\* traceIntent, which goes on to retrieval with the fallback entities.
C2_CaughtThrowIsClean ==
    /\ t_threw \cap CaughtCalls # {} => (TraceReturned /\ t_result = CLEAN)
    /\ "extract" \in t_threw => t_pc \in {"retrieve", "audit", "done", "idle"}
    /\ ("extract" \in t_threw /\ t_pc = "retrieve") =>
           t_entities = NaiveEntities(t_objective)

\* The extraction call threw, the trace went on, and the adjudication call threw.
C2_Witness ==
    /\ t_pc = "done"
    /\ {"extract", "audit"} \subseteq t_threw
    /\ t_result = CLEAN

\* C3: an empty vector store, or a probe search that throws, makes traceIntent
\* return CLEAN at once: no oracle call, no code search, no doc search.
C3_EmptyStorePassesThrough ==
    t_probe \in {"empty", "threw"} =>
        /\ TraceReturned
        /\ t_result = CLEAN
        /\ t_llmCalls = 0
        /\ t_searches["code"] = 0
        /\ t_searches["doc"] = 0
        /\ t_searches["probe"] = 1

\* The probe came back with an empty list and the call has returned.
C3_Witness ==
    /\ t_pc = "done"
    /\ t_probe = "empty"
    /\ t_result = CLEAN

\* A list of strings can be parsed from the reply of the extraction call.
ListParsed(out) ==
    /\ ~out.threw
    /\ out # NoText
    /\ GreedyMatch(out.text, "[", "]").found
    /\ JsonArrayOk(GreedyMatch(out.text, "[", "]").sub)

\* C25: whenever no list can be parsed from the extraction reply (no array in
\* it, an array text that is no JSON, or a throwing call), the entities are
\* the objective's words longer than 3 characters, in order, at most 10.
C25_ExtractionFallsBack ==
    (t_pc \in {"retrieve", "audit"} /\ ~ListParsed(t_extract)) =>
        /\ t_entities = NaiveEntities(t_objective)
        /\ Len(t_entities) <= 10
        /\ \A i \in 1..Len(t_entities) : Len(t_entities[i]) > 3

\* C27: when both similarity searches return no chunk, traceIntent returns
\* CLEAN without the adjudication call (the extraction call is the only oracle
\* call); when they return chunks, the adjudication oracle is called exactly
\* once, with at most 6 chunks.
C27_AdjudicationOnlyWithChunks ==
    /\ t_chunks <= 2 * TopK
    /\ t_searches["code"] <= 1 /\ t_searches["doc"] <= 1
    /\ (t_pc = "done" /\ t_searches["code"] = 1 /\ t_chunks = 0) =>
           (t_result = CLEAN /\ t_llmCalls = 1 /\ t_reply = <<>>)
    /\ (t_pc = "done" /\ t_chunks > 0) => t_llmCalls = 2
    /\ t_llmCalls = 2 => t_chunks > 0

\* Both searches came back empty without throwing and the call returned.
C27_Witness ==
    /\ t_pc = "done"
    /\ t_searches["code"] = 1 /\ t_searches["doc"] = 1
    /\ t_threw = {}
    /\ t_chunks = 0
    /\ t_llmCalls = 1
    /\ t_result = CLEAN

\* The JSON object of a reply, if the reply holds one that parses.
ReplyObject(text) ==
    LET m == GreedyMatch(text, "{", "}")
    IN  IF m.found /\ JsonObjectOk(m.sub) THEN m.sub ELSE <<>>
IsFullCollision(obj) ==
    /\ \E i \in 1..Len(obj) : obj[i] = Tok("status", "COLLISION")
    /\ \A k \in {"source", "snippet", "reason"} :
          \E i \in 1..Len(obj) : obj[i].k = k /\ obj[i].v # ""

\* C4: COLLISION is returned only for a reply that parses to an object with
\* status COLLISION and non-empty source, snippet and reason, and it carries
\* exactly these three values; every other reply yields CLEAN.
C4_CollisionOnlyWhenComplete ==
    t_pc = "done" =>
        LET obj == ReplyObject(t_reply)
        IN  IF IsFullCollision(obj)
            THEN /\ t_result.status = "COLLISION"
                 /\ \A k \in {"source", "snippet", "reason"} :
                       Tok(k, t_result.ctx[k]) \in {obj[i] : i \in 1..Len(obj)}
            ELSE t_result = CLEAN

\* A COLLISION extracted from a reply that wraps the object in prose.
C4_Witness ==
    /\ t_pc = "done"
    /\ t_result.status = "COLLISION"
    /\ Len(t_reply) > 0
    /\ t_reply[1] = PROSE


\* The stretches of a reply that are a JSON object: from a "{" to the first
\* "}" after it, with members only in between.
ObjectSpans(text) ==
    {<<i, j>> \in (1..Len(text)) \X (1..Len(text)) :
        /\ i < j
        /\ text[i] = LBRACE
        /\ text[j] = RBRACE
        /\ \A k \in (i + 1)..(j - 1) : text[k].k \in MemberKeys}
FirstObject(text) ==
    LET i == SetMin({sp[1] : sp \in ObjectSpans(text)})
        sp == CHOOSE x \in ObjectSpans(text) : x[1] = i
    IN  SubSeq(text, sp[1], sp[2])

\* C29: whenever the adjudication reply holds a JSON object that is a
\* COLLISION with all its fields, traceIntent returns COLLISION with the
\* fields of that object, whatever prose or braces stand before or after it.
C29_ParsingToleratesAffixes ==
    (t_pc = "done" /\ ObjectSpans(t_reply) # {}
        /\ IsFullCollision(FirstObject(t_reply))) =>
        /\ t_result.status = "COLLISION"
        /\ \A k \in {"source", "snippet", "reason"} :
              Tok(k, t_result.ctx[k]) \in
                  {FirstObject(t_reply)[n] : n \in 1..Len(FirstObject(t_reply))}

(***************************************************************************)
(* Properties of processMission (under SpecRun, C6 under SpecMission)      *)
(***************************************************************************)
RunDone(r) == m_runs[r].pc = "done"
Wrote(r, status) == \E i \in 1..Len(m_runs[r].writes) : m_runs[r].writes[i] = status
\* the run got through plan generation and wrote the result
Succeeded(r) == RunDone(r) /\ Wrote(r, "complete")

\* C5: in a run whose trace returned COLLISION the plan-generation agent is
\* never invoked, and the run ends with the mission stored as rejected with
\* the formatted collision report as its plan.
C5_CollisionStoredRejected ==
    \A r \in Slots :
        m_runs[r].trace.status = "COLLISION" =>
            /\ m_runs[r].agentCalls = 0
            /\ RunDone(r) =>
                  /\ m_db[m_runs[r].id].status = "rejected"
                  /\ m_db[m_runs[r].id].flight_plan =
                        formatCollisionReport(m_runs[r].trace.ctx)

\* C6: for every mission at most one processMission run is executing.
C6_SingleFlowPerMission ==
    \A id \in MissionIds :
        Cardinality({r \in Slots : Running(r) /\ m_runs[r].id = id}) <= 1

\* C9: on the success path no run whose effective status is turbulent calls
\* generateDeckCards, and a run with any other effective status and a known
\* owner calls it exactly once, with the objective's entropy score, vectors
\* and confidence, the effective tier label and the plan's word count.
C9_DeckCardUnlessTurbulent ==
    \A r \in Slots :
        Wrote(r, "complete") =>
            LET f == m_runs[r]
                mea == calculateEntropy(m_db[f.id].objective)
            IN  /\ f.eff.flightStatus = "turbulent" => f.deckCalls = 0
                /\ f.deckCalls <= 1
                /\ (RunDone(r) /\ f.eff.flightStatus # "turbulent" /\ f.ownerId # NoOwner) =>
                      /\ f.deckCalls = 1
                      /\ f.deckArg.entropyScore = mea.entropyScore
                      /\ f.deckArg.vectors = m_db[f.id].objective
                      /\ f.deckArg.confidence = mea.confidence
                      /\ f.deckArg.flightLabel = f.eff.flightLabel
                      /\ f.deckArg.wordCount = Len(f.flightPlan)

\* A finished run of an approved objective that emitted its card.
C9_Witness ==
    \E r \in Slots :
        /\ Succeeded(r)
        /\ m_runs[r].eff.flightStatus = "approved"
        /\ m_runs[r].deckCalls = 1
        /\ m_runs[r].deckArg.wordCount = 5

\* C10 as stated: a mission whose objective scores above 75 produces no deck
\* card, even when plan generation succeeds.
C10_NoCardAbove75 ==
    \A r \in Slots :
        (Wrote(r, "complete") /\ m_runs[r].mea.entropyScore > TurbulentMax) =>
            m_runs[r].deckCalls = 0

\* C10 amended: an objective scoring above 75 is classified PURE CHAOS /
\* rejected, which is not the turbulent tier: when plan generation succeeds
\* the run emits exactly one deck card, labelled PURE CHAOS / rejected, unless
\* the plan carries a vague marker or the mission has no owner, and only in
\* those two cases does it emit none.
C10_PureChaosCard ==
    \A r \in Slots :
        (Succeeded(r) /\ m_runs[r].mea.entropyScore > TurbulentMax) =>
            LET f == m_runs[r]
            IN  /\ f.mea.flightStatus = "rejected"
                /\ f.mea.flightLabel = "PURE CHAOS"
                /\ f.deckCalls = IF isVagueResponse(f.flightPlan) \/ f.ownerId = NoOwner
                                 THEN 0 ELSE 1
                /\ f.deckCalls = 1 =>
                      /\ f.deckArg.flightStatus = "rejected"
                      /\ f.deckArg.flightLabel = "PURE CHAOS"

\* A finished run of a PURE CHAOS objective that emitted a card.
C10_Witness ==
    \E r \in Slots :
        /\ Succeeded(r)
        /\ m_runs[r].mea.entropyScore > TurbulentMax
        /\ m_runs[r].deckCalls = 1

\* The plans of GeneratedPlans that hold a vague marker in some letter casing.
VaguePlans ==
    { <<"Mission", "scrubbed", "resubmit", "with", "detail">>,
      <<"MISSION", "SCRUBBED">>,
      <<"please", "provide", "more", "context">> }
Planned(r) == m_runs[r].flightPlan # NullPlan

\* C11: a generated plan holding a vague marker in any letter casing makes the
\* effective status turbulent and the effective label TURBULENT whatever the
\* tier of the objective; a plan holding none leaves the effective status and
\* label at those of calculateEntropy(objective).
C11_VagueOverridesTier ==
    \A r \in Slots :
        Planned(r) =>
            LET f == m_runs[r]
                mea == calculateEntropy(m_db[f.id].objective)
            IN  IF f.flightPlan \in VaguePlans
                THEN /\ f.eff.flightStatus = "turbulent"
                     /\ f.eff.flightLabel = "TURBULENT"
                ELSE /\ f.eff.flightStatus = mea.flightStatus
                     /\ f.eff.flightLabel = mea.flightLabel

\* A MACH-1 objective whose plan spells a marker in lower case.
C11_Witness ==
    \E r \in Slots :
        /\ Planned(r)
        /\ m_runs[r].flightPlan = <<"please", "provide", "more", "context">>
        /\ m_runs[r].mea.flightLabel = "MACH-1"
        /\ m_runs[r].eff.flightStatus = "turbulent"

\* C12: whenever plan generation returns text that is not empty (not blank),
\* the run ends with the mission stored as complete with that text as its
\* plan, whatever the entropy tier of the objective and whether or not the
\* plan is vague.
C12_PlanAlwaysPersisted ==
    \A r \in Slots :
        (Planned(r) /\ RunDone(r)) =>
            /\ m_db[m_runs[r].id].status = "complete"
            /\ m_db[m_runs[r].id].flight_plan = m_runs[r].flightPlan
            /\ m_runs[r].writes = <<"processing", "complete">>

\* A finished run of a PURE CHAOS objective with a vague plan, stored complete.
C12_Witness ==
    \E r \in Slots :
        /\ RunDone(r)
        /\ m_runs[r].mea.flightStatus = "rejected"
        /\ m_runs[r].eff.flightStatus = "turbulent"
        /\ m_db[m_runs[r].id].status = "complete"
        /\ m_db[m_runs[r].id].flight_plan = <<"MISSION", "SCRUBBED">>

GenerationFailed(r) == m_runs[r].err \in AgentErrors \cup {EmptyResponse}

\* C13: when plan generation throws, times out or returns empty or blank
\* text, nothing is invoked after the generation call (no calculateEntropy,
\* isVagueResponse, traceIntent or generateDeckCards), the mission is never
\* written as complete, and the run ends with the mission stored as failed
\* with the error message inside the stored plan.
C13_FailureStoredFailed ==
    \A r \in Slots :
        GenerationFailed(r) =>
            LET f == m_runs[r]
            IN  /\ f.calls # <<>>
                /\ f.calls[Len(f.calls)] = "runEmbeddedPiAgent"
                /\ f.deckCalls = 0
                /\ ~Wrote(r, "complete")
                /\ RunDone(r) =>
                      /\ m_db[f.id].status = "failed"
                      /\ \E i \in 1..Len(m_db[f.id].flight_plan) :
                            m_db[f.id].flight_plan[i] = f.err

\* A finished run whose agent returned only whitespace.
C13_Witness ==
    \E r \in Slots :
        /\ RunDone(r)
        /\ m_runs[r].err = EmptyResponse
        /\ m_runs[r].trace.status = "CLEAN"
        /\ m_db[m_runs[r].id].status = "failed"

\* C22: a run whose collision stage threw goes on to the processing write as
\* a run with a CLEAN verdict does; it never writes rejected, and a failed
\* write of such a run carries an error of the generation stage.
GenerationErrors == AgentErrors \cup {EmptyResponse, "Workspace unavailable"}
C22_TraceFailureNeverBlocks ==
    \A r \in Slots :
        m_runs[r].trace = Thrown =>
            /\ m_runs[r].pc \in {"processing", "agent", "complete", "card", "fail", "done"}
            /\ m_runs[r].writes = <<>> => m_runs[r].pc = "processing"
            /\ m_runs[r].writes # <<>> => m_runs[r].writes[1] = "processing"
            /\ \A k \in DOMAIN m_runs[r].writes : m_runs[r].writes[k] # "rejected"
            /\ m_runs[r].pc = "fail" => m_runs[r].err \in GenerationErrors
            /\ m_db[m_runs[r].id].status # "rejected"

\* A run whose traceIntent call threw has stored its plan as complete.
C22_Witness ==
    \E r \in Slots :
        /\ m_runs[r].trace = Thrown
        /\ m_runs[r].calls # <<>> /\ m_runs[r].calls[1] = "traceIntent"
        /\ m_runs[r].writes = <<"processing", "complete">>
        /\ m_db[m_runs[r].id].status = "complete"

CallsOf(r, fn) == {i \in DOMAIN m_runs[r].calls : m_runs[r].calls[i] = fn}
WritesOf(r, status) == {i \in DOMAIN m_runs[r].writes : m_runs[r].writes[i] = status}
CollisionRun(r) ==
    m_runs[r].trace.status = "COLLISION" /\ m_runs[r].trace.ctx # NoCtx

\* C26 as stated: in every run traceIntent is invoked at most once and before
\* plan generation, calculateEntropy is invoked only after plan generation
\* has returned and on the original objective, complete is written after
\* scoring, and the deck card is the last step.
C26_ScoringOnlyAfterGeneration ==
    \A r \in Slots :
        /\ Cardinality(CallsOf(r, "traceIntent")) <= 1
        /\ \A i \in CallsOf(r, "traceIntent"), j \in CallsOf(r, "runEmbeddedPiAgent") : i < j
        /\ \A i \in CallsOf(r, "calculateEntropy") :
               \E j \in CallsOf(r, "runEmbeddedPiAgent") : j < i
        /\ m_runs[r].mea # NoMea =>
               m_runs[r].mea = calculateEntropy(m_db[m_runs[r].id].objective)
        /\ Wrote(r, "complete") => CallsOf(r, "calculateEntropy") # {}
        /\ \A i \in CallsOf(r, "generateDeckCards") :
               i = Len(m_runs[r].calls) /\ RunDone(r)

\* C26 amended: in every run traceIntent is invoked at most once and before
\* plan generation; calculateEntropy is invoked at most once and always on
\* the original objective, after plan generation has returned in a run that
\* generates a plan, and after the rejected write, with no plan generation
\* at all, in a run whose trace returned COLLISION; complete is written only
\* after scoring; the deck card is the run's last step, after its terminal
\* write.
C26_StepsOrdered ==
    \A r \in Slots :
        /\ Cardinality(CallsOf(r, "traceIntent")) <= 1
        /\ \A i \in CallsOf(r, "traceIntent"), j \in CallsOf(r, "runEmbeddedPiAgent") : i < j
        /\ Cardinality(CallsOf(r, "calculateEntropy")) <= 1
        /\ \A i \in CallsOf(r, "calculateEntropy") :
               IF CollisionRun(r)
               THEN /\ CallsOf(r, "runEmbeddedPiAgent") = {}
                    /\ m_runs[r].writes = <<"rejected">>
               ELSE \E j \in CallsOf(r, "runEmbeddedPiAgent") : j < i
        /\ m_runs[r].mea # NoMea =>
               m_runs[r].mea = calculateEntropy(m_db[m_runs[r].id].objective)
        /\ Wrote(r, "complete") =>
               /\ CallsOf(r, "calculateEntropy") # {}
               /\ m_runs[r].flightPlan # NullPlan
        /\ \A i \in CallsOf(r, "generateDeckCards") :
               /\ i = Len(m_runs[r].calls)
               /\ RunDone(r)
               /\ Wrote(r, "complete") \/ Wrote(r, "rejected")

\* A run has traced, generated, scored, stored and emitted its card, in
\* that order.
C26_Witness ==
    \E r \in Slots :
        /\ RunDone(r)
        /\ m_runs[r].calls = <<"traceIntent">> \o generationSteps \o <<"generateDeckCards">>
        /\ m_runs[r].writes = <<"processing", "complete">>
        /\ m_runs[r].mea = calculateEntropy(m_db[m_runs[r].id].objective)

TerminalStatuses == {"rejected", "complete", "failed"}

\* C30: a run writes at most one of rejected, complete and failed, and that
\* write is its last status write; rejected is written only in a run whose
\* trace returned COLLISION and never after processing; complete and failed
\* are never both written by one run; processing is written only before a
\* terminal status.
C30_OneTerminalWrite ==
    \A r \in Slots :
        LET w == m_runs[r].writes
            terminal == {i \in DOMAIN w : w[i] \in TerminalStatuses}
        IN  /\ Cardinality(terminal) <= 1
            /\ \A i \in terminal : i = Len(w)
            /\ WritesOf(r, "rejected") # {} =>
                   CollisionRun(r) /\ WritesOf(r, "processing") = {}
            /\ ~(Wrote(r, "complete") /\ Wrote(r, "failed"))
            /\ \A i \in WritesOf(r, "processing"), j \in terminal : i < j
            /\ RunDone(r) => terminal # {}

\* A run whose plan generation threw has ended on the failed write, after
\* its processing write.
C30_Witness ==
    \E r \in Slots :
        /\ RunDone(r)
        /\ m_runs[r].agentCalls = 1
        /\ m_runs[r].err \in AgentErrors
        /\ m_runs[r].writes = <<"processing", "failed">>

\* the run in slot q has ended after writing failed, rejected or complete
FinishedTerminal(q) ==
    RunDone(q) /\ \E i \in DOMAIN m_runs[q].writes : m_runs[q].writes[i] \in TerminalStatuses

\* C28: once a run has ended for a mission with a failed, rejected or complete
\* write, no step starts another processMission run for that mission.
C28_NoRunAfterTerminal ==
    [][\A r \in Slots :
          (m_runs'[r] # m_runs[r] /\ m_runs'[r].pc = "fetch") =>
              ~\E q \in Slots : FinishedTerminal(q) /\ m_runs[q].id = m_runs'[r].id]_vars

(***************************************************************************)
(* Properties of VectorService.ingestGitHubRepo (under SpecIngest)         *)
(***************************************************************************)
\* C7: among calls for one repo that never overlap, once a call has stored
\* chunks no later call fetches anything or stores again, so the chunks of a
\* repo are stored at most once.
C7_IngestOnce ==
    \A p \in RepoPrefixes :
        p \notin v_overlap => (p \notin v_lateFetch /\ v_inserted[p] <= 1)

\* C8: when calls for one repo overlap, the repo's chunks are inserted at most
\* once.  Stated for the behaviours in which every dedup query succeeded, so
\* that a violation is the race of the two calls and not the failed query of C7.
C8_NoDuplicateUnderOverlap ==
    \A p \in RepoPrefixes :
        (p \in v_overlap /\ p \notin v_dedupErr) => v_inserted[p] <= 1

\* A call that has settled.
Settled(c) == v_calls[c].pc = "idle" /\ v_calls[c].outcome # "none"

\* C23: a call that met a failing file fetch or a failing README fetch (an
\* error status or a throw) resolves unless embedAndStore itself threw, and
\* when some file yielded chunks it has made exactly one embedAndStore call.
C23_FetchFailureNotFatal ==
    \A c \in Callers :
        (Settled(c) /\ v_calls[c].failures # {} /\ ~v_calls[c].storeThrew) =>
            /\ v_calls[c].outcome = "resolved"
            /\ v_calls[c].storeCalls = IF v_calls[c].nchunks > 0 THEN 1 ELSE 0

\* C24: at most 5 file fetches of a call are in flight at any time, no batch
\* begins before every fetch of the batch before it has settled, and a call
\* starts at most 50 file fetches.
C24_BatchedFetches ==
    \A c \in Callers :
        /\ v_calls[c].inflight <= BatchSize
        /\ ~v_calls[c].early
        /\ v_calls[c].fetched <= MaxFetchFiles

\* A call on a tree of more than 50 files has started its 50 fetches in ten
\* batches and the last fetch has settled.
C24_Witness ==
    /\ v_calls[1].fetched = MaxFetchFiles
    /\ v_calls[1].files = 0
    /\ v_calls[1].inflight = 0
    /\ v_calls[1].pc = "readme"
    /\ v_calls[1].failures = {"file status", "file throw"}

(***************************************************************************)
(* Properties of the composite and the tiers (under SpecTier)              *)
(***************************************************************************)
Classified == g_result # NoMea
Tier(status, label) == g_result.flightStatus = status /\ g_result.flightLabel = label

\* C14: a composite score up to 15 is MACH-1/approved, 16 to 45 is
\* LAMINAR/approved, 46 to 75 is TURBULENT/turbulent, 76 and above is PURE
\* CHAOS/rejected, and label and status always go together.
C14_TierBoundaries ==
    Classified =>
        LET s == g_result.entropyScore
        IN  /\ s \in 0..100
            /\ s <= 15 => Tier("approved", "MACH-1")
            /\ (16 <= s /\ s <= 45) => Tier("approved", "LAMINAR")
            /\ (46 <= s /\ s <= 75) => Tier("turbulent", "TURBULENT")
            /\ s >= 76 => Tier("rejected", "PURE CHAOS")
            /\ g_result.flightStatus = "approved" <=>
                    g_result.flightLabel \in {"MACH-1", "LAMINAR"}
            /\ g_result.flightStatus = "turbulent" <=> g_result.flightLabel = "TURBULENT"
            /\ g_result.flightStatus = "rejected" <=> g_result.flightLabel = "PURE CHAOS"

\* A composite of exactly 75, classified TURBULENT.
C14_Witness ==
    /\ Classified
    /\ g_result.entropyScore = 75
    /\ Tier("turbulent", "TURBULENT")

\* C16: entropyScore is (30 rho + 15 sigma + 40 mu + 15 pi) / 100 rounded to
\* the nearest integer, halves up, for the vectors of the same result, and
\* confidence (in hundredths) is 100 - entropyScore.
C16_WeightedComposite ==
    Classified =>
        LET v == g_result.vectors
            sum == 30 * v.compressionRatio + 15 * v.ambiguityDensity
                   + 40 * v.specificityMass + 15 * v.structuralIntegrity
        IN  /\ v = g_vectors
            /\ 100 * g_result.entropyScore - 50 <= sum
            /\ sum < 100 * g_result.entropyScore + 50
            /\ g_result.confidence = 100 - g_result.entropyScore

\* A weighted sum of 150, which is 1.5 and rounds up to 2.
C16_Witness ==
    /\ Classified
    /\ g_vectors = Vectors(1, 0, 3, 2)
    /\ g_result.entropyScore = 2

(***************************************************************************)
(* Properties of chunkText (under SpecChunk)                               *)
(***************************************************************************)
Chunked == c_text # NoInput

\* C20: no chunk is longer than the budget, and a text longer than the budget
\* yields at least ceil(length / budget) chunks.
C20_ChunksWithinBudget ==
    Chunked =>
        /\ \A i \in 1..Len(c_chunks) : Len(c_chunks[i]) <= c_budget
        /\ Len(c_text) > c_budget => Len(c_chunks) * c_budget >= Len(c_text)

\* the chunks joined with one newline between consecutive chunks
RECURSIVE JoinChunks(_)
JoinChunks(chunks) ==
    IF chunks = <<>> THEN <<>>
    ELSE IF Len(chunks) = 1 THEN chunks[1]
    ELSE chunks[1] \o <<NL>> \o JoinChunks(Tail(chunks))
\* the lines of the chunks, in order
RECURSIVE ChunkLines(_)
ChunkLines(chunks) ==
    IF chunks = <<>> THEN <<>>
    ELSE splitLines(chunks[1]) \o ChunkLines(Tail(chunks))

\* C21: the chunks joined with newlines are the text again, and the lines of
\* the chunks are the lines of the text, none of them split.
C21_ChunksLossless ==
    Chunked =>
        /\ JoinChunks(c_chunks) = c_text
        /\ ChunkLines(c_chunks) = splitLines(c_text)

(***************************************************************************)
(* Properties of calculateEntropy over texts (under SpecScore)             *)
(***************************************************************************)
InRange(mea) ==
    /\ mea.vectors.compressionRatio \in VectorRange
    /\ mea.vectors.ambiguityDensity \in VectorRange
    /\ mea.vectors.specificityMass \in VectorRange
    /\ mea.vectors.structuralIntegrity \in VectorRange
    /\ mea.entropyScore \in VectorRange

\* C15: for every text scored, each of the four vectors and the composite
\* score is a whole number between 0 and 100.
C15_VectorsInRange ==
    \A k \in DOMAIN e_seen : InRange(e_seen[k].result)

\* A text that deflate makes longer (a ratio below 0) and a text it shrinks to
\* an eighth (a scaled ratio above 100) have both been scored.
C15_Witness ==
    /\ \E k \in DOMAIN e_seen :
          /\ e_seen[k].text = TextOutline
          /\ deflatedLength(TextOutline) > Len(TextOutline)
          /\ e_seen[k].result.vectors.compressionRatio = 0
    /\ \E k \in DOMAIN e_seen :
          /\ e_seen[k].text = TextRepeated
          /\ e_seen[k].result.vectors.compressionRatio = 100

C18_ShortInputFloors ==
    \A k \in DOMAIN e_seen :
        LET text == e_seen[k].text
            mea == e_seen[k].result
        IN  /\ mea # NoMea
            /\ Len(text) < 10 => mea.vectors.compressionRatio = 80
            /\ Len(text) < 5 => mea.vectors.ambiguityDensity = 80
            /\ WordCount(text) = 0 => mea.vectors.specificityMass = 100
            /\ WordCount(text) < 10 => mea.vectors.structuralIntegrity = 70
            /\ Len(text) <= 1 =>
                  /\ mea.entropyScore > TurbulentMax
                  /\ mea.flightLabel = "PURE CHAOS"
                  /\ mea.flightStatus = "rejected"

\* The empty text and a single letter have both been scored, at 87.
C18_Witness ==
    /\ \E k \in DOMAIN e_seen :
          e_seen[k].text = TextEmpty /\ e_seen[k].result.entropyScore = 87
    /\ \E k \in DOMAIN e_seen :
          e_seen[k].text = TextLetter /\ e_seen[k].result.entropyScore = 87

\* C19: "Build a thing" gets a high specificityMass and structuralIntegrity,
\* a composite score above 75 and the PURE CHAOS / rejected tier.
C19_BuildAThingPureChaos ==
    \A k \in DOMAIN e_seen :
        e_seen[k].text = TextBuildAThing =>
            /\ e_seen[k].result.vectors.specificityMass = 100
            /\ e_seen[k].result.vectors.structuralIntegrity = 70
            /\ e_seen[k].result.entropyScore > TurbulentMax
            /\ e_seen[k].result.flightLabel = "PURE CHAOS"
            /\ e_seen[k].result.flightStatus = "rejected"

====
